---------------------------- MODULE Spec2Model ----------------------------
(***************************************************************************)
(* Gateway Switcher: the route-rule matcher, the bypass list builder, the  *)
(* route/PAC orchestrator (RouteService) and the profile manager's         *)
(* apply_profile, modelled from the Python sources.                        *)
(*                                                                         *)
(* Text that the code inspects character by character (rule patterns,      *)
(* domains, the proxy bypass list) is a sequence of one-character strings. *)
(* Text the code only stores, compares for emptiness or passes on (ids,    *)
(* gateways, proxy servers, addresses) is a TLA+ string.                   *)
(***************************************************************************)
EXTENDS Integers, Sequences, FiniteSets, TLC

VARIABLES
    collection,   \* ProfileManager._collection (profiles, active_profile_id, settings)
    disk,         \* profiles.json as last written by save()
    adapter,      \* adapter IP/DNS configuration (Adapter Configuration Service)
    registry,     \* Internet Settings registry values (Proxy Registry Service)
    pac,          \* the PAC file: NoPac when absent, else its content
    routes,       \* host routes in the OS routing table: set of <<address, gateway>>
    nextId,       \* source of fresh uuid4 identifiers
    last,         \* the last operation called, its inputs and its result
    input         \* the arguments of a direct call of the matcher or the RouteService

vars == <<collection, disk, adapter, registry, pac, routes, nextId, last, input>>

-----------------------------------------------------------------------------
(* Bounds *)

MaxPat == 2        \* longest pattern drawn from the alphabet
MaxDom == 4        \* longest domain drawn from the alphabet
MaxRules == 2      \* longest rule list handed to a query
MaxRouteRules == 2 \* longest rule list handed to the RouteService
MaxBypassLen == 23 \* longest stored bypass list apply_profile is still called on
MaxCopies == 2     \* most " (Copy)" suffixes on a rule name
MaxProfiles == 3   \* most profiles of a collection
MaxId == 4         \* most identifiers handed out in a session

-----------------------------------------------------------------------------
(* Character strings *)

\* Python's None, where an identifier is expected
None == <<"None">>

Alphabet == {"a", "A", "."}

\* all character strings over S of length at most n
StrOver(S, n) == UNION {[1..k -> S] : k \in 0..n}

Min(a, b) == IF a < b THEN a ELSE b

\* str.lower() on one ASCII character
LowerChar(c) ==
    CASE c = "A" -> "a"
      [] c = "B" -> "b"
      [] OTHER -> c

\* the text as it is, not lower-cased
LowerOmitted(s) == s

\* str.lower()
Lower(s) == [i \in 1..Len(s) |-> LowerChar(s[i])]

\* s.endswith(t)
EndsWith(s, t) ==
    /\ Len(t) <= Len(s)
    /\ SubSeq(s, Len(s) - Len(t) + 1, Len(s)) = t

\* t in s   (substring test)
Contains(t, s) ==
    \E i \in 0..(Len(s) - Len(t)) : SubSeq(s, i + 1, i + Len(t)) = t

-----------------------------------------------------------------------------
(* re.match(pattern, domain) for the part of the regular expression syntax *)
(* that the modelled patterns use: literal characters, ".", the postfix    *)
(* repeats "*" and "{n}", and "(" which opens a group.  The modelled       *)
(* patterns never contain ")", so a group is never closed.                 *)

Digits == {"0", "1", "2", "3", "4", "5", "6", "7", "8", "9"}

DigitVal(c) ==
    CASE c = "0" -> 0 [] c = "1" -> 1 [] c = "2" -> 2 [] c = "3" -> 3
      [] c = "4" -> 4 [] c = "5" -> 5 [] c = "6" -> 6 [] c = "7" -> 7
      [] c = "8" -> 8 [] c = "9" -> 9

\* _sre.MAXREPEAT = 4294967295, as decimal digits
MAXREPEAT == <<"4", "2", "9", "4", "9", "6", "7", "2", "9", "5">>

\* a repeat count no modelled domain can reach; larger counts saturate here
RepeatCap == 1000

RECURSIVE StripZeros(_)
StripZeros(ds) ==
    IF Len(ds) > 1 /\ ds[1] = "0" THEN StripZeros(Tail(ds)) ELSE ds

\* lexicographic d1 >= d2 for digit strings of equal length
RECURSIVE DigitsGeq(_, _)
DigitsGeq(d1, d2) ==
    IF d1 = <<>> THEN TRUE
    ELSE IF DigitVal(d1[1]) > DigitVal(d2[1]) THEN TRUE
    ELSE IF DigitVal(d1[1]) < DigitVal(d2[1]) THEN FALSE
    ELSE DigitsGeq(Tail(d1), Tail(d2))

\* int(lo) >= MAXREPEAT
TooLargeRepeat(lo) ==
    LET ds == StripZeros(lo) IN
    \/ Len(ds) > Len(MAXREPEAT)
    \/ Len(ds) = Len(MAXREPEAT) /\ DigitsGeq(ds, MAXREPEAT)

\* int(lo), saturating at RepeatCap
RECURSIVE IntOf(_, _)
IntOf(ds, acc) ==
    IF ds = <<>> THEN acc
    ELSE IntOf(Tail(ds), Min(RepeatCap, acc * 10 + DigitVal(ds[1])))

\* the run of digits of p that starts at position i
RECURSIVE DigitRun(_, _)
DigitRun(p, i) ==
    IF i <= Len(p) /\ p[i] \in Digits THEN <<p[i]>> \o DigitRun(p, i + 1) ELSE <<>>

Inf == -1

\* sre_parse: scan p from position i.  items is the current subpattern, each
\* item [ch, min, max, rep]; open is TRUE once a "(" has been read.
\* Result: [err |-> "none" | "re.error" | "OverflowError", items |-> ...]
RECURSIVE ReParse(_, _, _, _)
ReParse(p, i, items, open) ==
    IF i > Len(p)
    THEN IF open THEN [err |-> "re.error", items |-> <<>>]      \* missing )
                 ELSE [err |-> "none", items |-> items]
    ELSE
      LET c == p[i]
          lit == [ch |-> c, min |-> 1, max |-> 1, rep |-> FALSE]
          n == Len(items)
          Repeat(lo, hi, next) ==
              IF n = 0 THEN [err |-> "re.error", items |-> <<>>]           \* nothing to repeat
              ELSE IF items[n].rep THEN [err |-> "re.error", items |-> <<>>] \* multiple repeat
              ELSE ReParse(p, next,
                           [items EXCEPT ![n] = [ch |-> items[n].ch, min |-> lo,
                                                 max |-> hi, rep |-> TRUE]],
                           open)
      IN
      CASE c = "*" -> Repeat(0, Inf, i + 1)
        [] c = "{" ->
            LET lo == DigitRun(p, i + 1)
                j == i + 1 + Len(lo)
            IN
            IF i + 1 <= Len(p) /\ p[i + 1] = "}"
            THEN ReParse(p, i + 1, Append(items, lit), open)
            ELSE IF ~(j <= Len(p) /\ p[j] = "}")
            THEN ReParse(p, i + 1, Append(items, lit), open)
            ELSE IF TooLargeRepeat(lo)
            THEN [err |-> "OverflowError", items |-> <<>>]
            ELSE Repeat(IntOf(lo, 0), IntOf(lo, 0), j + 1)
        [] c = "(" -> ReParse(p, i + 1, <<>>, TRUE)
        [] OTHER -> ReParse(p, i + 1, Append(items, lit), open)

\* sre match of items[i..] against d[j..], item i already matched k times;
\* anchored at the start of d, need not consume all of d
RECURSIVE ReRun(_, _, _, _, _)
ReRun(items, i, d, j, k) ==
    IF i > Len(items) THEN TRUE
    ELSE
      LET it == items[i] IN
      \/ k >= it.min /\ ReRun(items, i + 1, d, j, 0)
      \/ /\ it.max = Inf \/ k < it.max
         /\ j <= Len(d)
         /\ it.ch = "." \/ it.ch = d[j]
         /\ ReRun(items, i, d, j + 1, k + 1)

\* re.match(pattern, domain): [exc, val]; exc is the exception raised, if any
re_match(pattern, domain) ==
    LET parsed == ReParse(pattern, 1, <<>>, FALSE) IN
    IF parsed.err # "none"
    THEN [exc |-> parsed.err, val |-> FALSE]
    ELSE [exc |-> "none", val |-> ReRun(parsed.items, 1, domain, 1, 0)]

-----------------------------------------------------------------------------
(* models/profile.py: RouteRule *)

MatchTypes == {"exact", "suffix", "contains", "regex", "glob"}

\* suffix_match without the "." in front of the pattern
suffix_match_any_ending(domain, pattern) ==
    domain = pattern \/ EndsWith(domain, pattern)

\* the "suffix" test of RouteRule.matches, on lower-cased text
suffix_match(domain, pattern) ==
    domain = pattern \/ EndsWith(domain, <<".">> \o pattern)

\* RouteRule.matches(domain): [exc, val]; exc # "none" when the call raises
matches(rule, domain) ==
    IF rule.pattern = <<>> \/ domain = <<>>
    THEN [exc |-> "none", val |-> FALSE]
    ELSE
      LET pattern == Lower(rule.pattern)
          dom == Lower(domain)
      IN
      CASE rule.match_type = "exact" ->
              [exc |-> "none", val |-> dom = pattern]
        [] rule.match_type = "suffix" ->
              [exc |-> "none", val |-> suffix_match(dom, pattern)]
        [] rule.match_type = "contains" ->
              [exc |-> "none", val |-> Contains(pattern, dom)]
        [] rule.match_type = "regex" ->
              LET r == re_match(pattern, dom) IN
              IF r.exc = "re.error"
              THEN [exc |-> "none", val |-> FALSE]      \* except re.error
              ELSE r
        [] OTHER -> [exc |-> "none", val |-> FALSE]

\* NetworkProfile.get_matching_rule(domain) over route_rules, from index i:
\* [exc, idx]; idx is the index of the rule returned, 0 for None
RECURSIVE get_matching_rule_from(_, _, _)
get_matching_rule_from(route_rules, domain, i) ==
    IF i > Len(route_rules) THEN [exc |-> "none", idx |-> 0]
    ELSE IF ~route_rules[i].enabled
    THEN get_matching_rule_from(route_rules, domain, i + 1)
    ELSE
      LET m == matches(route_rules[i], domain) IN
      IF m.exc # "none" THEN [exc |-> m.exc, idx |-> 0]
      ELSE IF m.val THEN [exc |-> "none", idx |-> i]
      ELSE get_matching_rule_from(route_rules, domain, i + 1)

get_matching_rule(route_rules, domain) ==
    get_matching_rule_from(route_rules, domain, 1)

-----------------------------------------------------------------------------
(* services/route_service.py: RouteService *)

NoPac == [exists |-> FALSE]

\* get_bypass_list_from with the two entries of a suffix rule swapped
RECURSIVE get_bypass_list_from_swapped(_, _)
get_bypass_list_from_swapped(rules, i) ==
    IF i > Len(rules) THEN <<>>
    ELSE
      LET rule == rules[i]
          pattern == rule.pattern
          entries ==
              IF rule.enabled /\ rule.bypass_proxy
              THEN CASE rule.match_type = "suffix" -> <<pattern, <<"*", ".">> \o pattern>>
                     [] rule.match_type = "exact" -> <<pattern>>
                     [] rule.match_type = "contains" -> <<<<"*">> \o pattern \o <<"*">>>>
                     [] OTHER -> <<pattern>>
              ELSE <<>>
      IN entries \o get_bypass_list_from_swapped(rules, i + 1)

\* RouteService.get_bypass_list_from_rules(rules), from index i
RECURSIVE get_bypass_list_from(_, _)
get_bypass_list_from(rules, i) ==
    IF i > Len(rules) THEN <<>>
    ELSE
      LET rule == rules[i]
          pattern == rule.pattern
          entries ==
              IF rule.enabled /\ rule.bypass_proxy
              THEN CASE rule.match_type = "suffix" -> <<<<"*", ".">> \o pattern, pattern>>
                     [] rule.match_type = "exact" -> <<pattern>>
                     [] rule.match_type = "contains" -> <<<<"*">> \o pattern \o <<"*">>>>
                     [] OTHER -> <<pattern>>
              ELSE <<>>
      IN entries \o get_bypass_list_from(rules, i + 1)

get_bypass_list_from_rules(rules) == get_bypass_list_from(rules, 1)

\* domain.lstrip("*.")
RECURSIVE lstrip_wild(_)
lstrip_wild(domain) ==
    IF domain # <<>> /\ domain[1] \in {"*", "."}
    THEN lstrip_wild(Tail(domain))
    ELSE domain

\* RouteService._resolve_domain(domain): the addresses getaddrinfo returns
\* for the cleaned name in the resolver state dns; none on gaierror
_resolve_domain(domain, dns) ==
    LET clean_domain == lstrip_wild(domain) IN
    IF clean_domain \in DOMAIN dns THEN dns[clean_domain] ELSE {}

\* _apply_gateway_routes_from that gives up at the first rule whose name does
\* not resolve
RECURSIVE _apply_gateway_routes_from_stopping(_, _, _, _)
_apply_gateway_routes_from_stopping(rules, i, env, acc) ==
    IF i > Len(rules)
    THEN [routes |-> acc.routes,
          adds |-> acc.adds,
          routes_added |-> acc.routes_added,
          errors |-> acc.errors,
          success |-> (acc.routes_added > 0 \/ acc.errors = 0)]
    ELSE
      LET rule == rules[i]
          ips == _resolve_domain(rule.pattern, env.dns)
          okIps == ips \ env.addFail
      IN
      IF ips = {}
      THEN [routes |-> acc.routes,
            adds |-> Append(acc.adds, [rule |-> rule.id, ips |-> {},
                                       gateway |-> rule.custom_gateway]),
            routes_added |-> acc.routes_added,
            errors |-> acc.errors + 1,
            success |-> acc.routes_added > 0]
      ELSE _apply_gateway_routes_from_stopping(rules, i + 1, env,
               [routes |-> acc.routes \cup {<<ip, rule.custom_gateway>> : ip \in okIps},
                routes_added |-> acc.routes_added + Cardinality(okIps),
                errors |-> acc.errors + Cardinality(ips \cap env.addFail),
                adds |-> Append(acc.adds, [rule |-> rule.id, ips |-> ips,
                                           gateway |-> rule.custom_gateway])])

\* RouteService._apply_gateway_routes(rules), from index i.
\* env.dns is the resolver state, env.addFail the addresses for which
\* "route ADD" exits non-zero.  acc = [routes, routes_added, errors, adds];
\* adds lists, per rule in processing order, the route additions asked for.
RECURSIVE _apply_gateway_routes_from(_, _, _, _)
_apply_gateway_routes_from(rules, i, env, acc) ==
    IF i > Len(rules)
    THEN [routes |-> acc.routes,
          adds |-> acc.adds,
          routes_added |-> acc.routes_added,
          errors |-> acc.errors,
          success |-> (acc.routes_added > 0 \/ acc.errors = 0)]
    ELSE
      LET rule == rules[i]
          ips == _resolve_domain(rule.pattern, env.dns)
          okIps == ips \ env.addFail
      IN
      IF ips = {}
      THEN _apply_gateway_routes_from(rules, i + 1, env,
               [acc EXCEPT !.errors = @ + 1,
                           !.adds = Append(@, [rule |-> rule.id, ips |-> {},
                                               gateway |-> rule.custom_gateway])])
      ELSE _apply_gateway_routes_from(rules, i + 1, env,
               [routes |-> acc.routes \cup {<<ip, rule.custom_gateway>> : ip \in okIps},
                routes_added |-> acc.routes_added + Cardinality(okIps),
                errors |-> acc.errors + Cardinality(ips \cap env.addFail),
                adds |-> Append(acc.adds, [rule |-> rule.id, ips |-> ips,
                                           gateway |-> rule.custom_gateway])])

_apply_gateway_routes(rules, env, rt) ==
    _apply_gateway_routes_from(rules, 1, env,
        [routes |-> rt, routes_added |-> 0, errors |-> 0, adds |-> <<>>])

\* pac_conditions with each rule's lines put in front of the earlier ones
RECURSIVE pac_conditions_prepended(_, _)
pac_conditions_prepended(rules, i) ==
    IF i > Len(rules) THEN <<>>
    ELSE
      LET rule == rules[i]
          hasReturn == rule.bypass_proxy
                       \/ (rule.use_custom_proxy /\ rule.custom_proxy_server # "")
          proxy_return ==
              IF rule.bypass_proxy THEN <<"DIRECT">>
              ELSE <<"PROXY", rule.custom_proxy_server, rule.custom_proxy_port>>
          test ==
              CASE rule.match_type = "exact" -> "host =="
                [] rule.match_type = "suffix" -> "dnsDomainIs"
                [] rule.match_type = "contains" -> "host.indexOf"
                [] rule.match_type = "regex" -> "shExpMatch"
                [] OTHER -> "none"
          clause == [line |-> "if", test |-> test, pattern |-> rule.pattern,
                     ret |-> proxy_return]
          comment == [line |-> "//", text |-> rule.name]
          lines ==
              IF ~hasReturn \/ test = "none" THEN <<>>
              ELSE IF rule.name # <<>> THEN <<comment, clause>>
              ELSE <<clause>>
      IN pac_conditions_prepended(rules, i + 1) \o lines

\* the lines _generate_pac_file emits for rules[i..]: an optional comment
\* line with the rule's name, then the rule's conditional clause
RECURSIVE pac_conditions(_, _)
pac_conditions(rules, i) ==
    IF i > Len(rules) THEN <<>>
    ELSE
      LET rule == rules[i]
          hasReturn == rule.bypass_proxy
                       \/ (rule.use_custom_proxy /\ rule.custom_proxy_server # "")
          proxy_return ==
              IF rule.bypass_proxy THEN <<"DIRECT">>
              ELSE <<"PROXY", rule.custom_proxy_server, rule.custom_proxy_port>>
          test ==
              CASE rule.match_type = "exact" -> "host =="
                [] rule.match_type = "suffix" -> "dnsDomainIs"
                [] rule.match_type = "contains" -> "host.indexOf"
                [] rule.match_type = "regex" -> "shExpMatch"
                [] OTHER -> "none"
          clause == [line |-> "if", test |-> test, pattern |-> rule.pattern,
                     ret |-> proxy_return]
          comment == [line |-> "//", text |-> rule.name]
          lines ==
              IF ~hasReturn \/ test = "none" THEN <<>>
              ELSE IF rule.name # <<>> THEN <<comment, clause>>
              ELSE <<clause>>
      IN lines \o pac_conditions(rules, i + 1)

\* pac_content with the default proxy's server not looked at
pac_content_enabled_only(rules, default_proxy_enabled, default_proxy_server, default_proxy_port) ==
    [exists |-> TRUE,
     conditions |-> pac_conditions(rules, 1),
     default_return |->
        IF default_proxy_enabled
        THEN <<"PROXY", default_proxy_server, default_proxy_port>>
        ELSE <<"DIRECT">>]

\* the text _generate_pac_file builds: the clauses and the default return
pac_content(rules, default_proxy_enabled, default_proxy_server, default_proxy_port) ==
    [exists |-> TRUE,
     conditions |-> pac_conditions(rules, 1),
     default_return |->
        IF default_proxy_enabled /\ default_proxy_server # ""
        THEN <<"PROXY", default_proxy_server, default_proxy_port>>
        ELSE <<"DIRECT">>]

\* shExpMatch(str, shexp) of the PAC runtime: "*" stands for any text, "?"
\* for any one character
RECURSIVE shExpMatch(_, _)
shExpMatch(str, shexp) ==
    IF shexp = <<>> THEN str = <<>>
    ELSE IF shexp[1] = "*"
    THEN shExpMatch(str, Tail(shexp))
         \/ (str # <<>> /\ shExpMatch(Tail(str), shexp))
    ELSE /\ str # <<>>
         /\ shexp[1] = "?" \/ shexp[1] = str[1]
         /\ shExpMatch(Tail(str), Tail(shexp))

\* the test of one generated clause on the normalised host
clause_holds(clause, host) ==
    CASE clause.test = "host ==" -> host = clause.pattern
      [] clause.test = "dnsDomainIs" ->
            EndsWith(host, clause.pattern) \/ EndsWith(host, <<".">> \o clause.pattern)
      [] clause.test = "host.indexOf" -> Contains(clause.pattern, host)
      [] clause.test = "shExpMatch" -> shExpMatch(host, clause.pattern)

\* the generated FindProxyForURL run on the lines from i on: the first clause
\* whose test holds returns, else the default return
RECURSIVE FindProxyFrom(_, _, _)
FindProxyFrom(file, host, i) ==
    IF i > Len(file.conditions) THEN file.default_return
    ELSE IF file.conditions[i].line = "if" /\ clause_holds(file.conditions[i], host)
    THEN file.conditions[i].ret
    ELSE FindProxyFrom(file, host, i + 1)

\* FindProxyForURL(url, host) of the generated script
FindProxyForURL(file, host) == FindProxyFrom(file, Lower(host), 1)

\* RouteService._generate_pac_file: the file after the call and the result;
\* env.pacWriteOk is FALSE when write_text raises
_generate_pac_file(rules, dpe, dps, dpp, env, file) ==
    IF env.pacWriteOk
    THEN [pac |-> pac_content(rules, dpe, dps, dpp), success |-> TRUE]
    ELSE [pac |-> file, success |-> FALSE]

\* RouteService._remove_pac_file
_remove_pac_file(file) == NoPac

\* the conditions of the list comprehensions [r for r in rules if ...]
\* the filter that lets every rule through
IsEnabledOmitted(r) == TRUE

IsEnabled(r) == r.enabled
\* the gateway filter that does not look at custom_gateway
IsGatewayRuleFlagOnly(r) == r.use_custom_gateway

IsGatewayRule(r) == r.use_custom_gateway /\ r.custom_gateway # ""
IsProxyRule(r) == r.bypass_proxy \/ r.use_custom_proxy

\* apply_route_rules returning the conjunction of its steps' results
apply_route_rules_strict(rules, default_gateway, dpe, dps, dpp, env, file, rt) ==
    IF rules = <<>>
    THEN [pac |-> _remove_pac_file(file), routes |-> rt, adds |-> <<>>,
          success |-> TRUE, steps |-> <<"remove_pac">>, warnings |-> 0]
    ELSE
      LET enabled_rules == SelectSeq(rules, IsEnabled) IN
      IF enabled_rules = <<>>
      THEN [pac |-> _remove_pac_file(file), routes |-> rt, adds |-> <<>>,
            success |-> TRUE, steps |-> <<"remove_pac">>, warnings |-> 0]
      ELSE
        LET gateway_rules == SelectSeq(enabled_rules, IsGatewayRule)
            gw == IF gateway_rules # <<>>
                  THEN _apply_gateway_routes(gateway_rules, env, rt)
                  ELSE [routes |-> rt, adds |-> <<>>, routes_added |-> 0,
                        errors |-> 0, success |-> TRUE]
            proxy_rules == SelectSeq(enabled_rules, IsProxyRule)
            gen == _generate_pac_file(proxy_rules, dpe, dps, dpp, env, file)
        IN
        [pac |-> IF proxy_rules # <<>> THEN gen.pac ELSE _remove_pac_file(file),
         routes |-> gw.routes,
         adds |-> gw.adds,
         success |-> gw.success /\ (proxy_rules # <<>> => gen.success),
         steps |-> (IF gateway_rules # <<>> THEN <<"gateway_routes">> ELSE <<>>)
                   \o (IF proxy_rules # <<>> THEN <<"generate_pac">>
                                             ELSE <<"remove_pac">>),
         warnings |-> (IF gw.success THEN 0 ELSE 1)
                      + (IF proxy_rules # <<>> /\ ~gen.success THEN 1 ELSE 0)]

\* RouteService.apply_route_rules: the PAC file and routing table after the
\* call, the route additions asked for, and the OperationResult
apply_route_rules(rules, default_gateway, dpe, dps, dpp, env, file, rt) ==
    IF rules = <<>>
    THEN [pac |-> _remove_pac_file(file), routes |-> rt, adds |-> <<>>,
          success |-> TRUE, steps |-> <<"remove_pac">>, warnings |-> 0]
    ELSE
      LET enabled_rules == SelectSeq(rules, IsEnabled) IN
      IF enabled_rules = <<>>
      THEN [pac |-> _remove_pac_file(file), routes |-> rt, adds |-> <<>>,
            success |-> TRUE, steps |-> <<"remove_pac">>, warnings |-> 0]
      ELSE
        LET gateway_rules == SelectSeq(enabled_rules, IsGatewayRule)
            gw == IF gateway_rules # <<>>
                  THEN _apply_gateway_routes(gateway_rules, env, rt)
                  ELSE [routes |-> rt, adds |-> <<>>, routes_added |-> 0,
                        errors |-> 0, success |-> TRUE]
            proxy_rules == SelectSeq(enabled_rules, IsProxyRule)
            gen == _generate_pac_file(proxy_rules, dpe, dps, dpp, env, file)
        IN
        [pac |-> IF proxy_rules # <<>> THEN gen.pac ELSE _remove_pac_file(file),
         routes |-> gw.routes,
         adds |-> gw.adds,
         success |-> TRUE,
         steps |-> (IF gateway_rules # <<>> THEN <<"gateway_routes">> ELSE <<>>)
                   \o (IF proxy_rules # <<>> THEN <<"generate_pac">>
                                             ELSE <<"remove_pac">>),
         warnings |-> (IF gw.success THEN 0 ELSE 1)
                      + (IF proxy_rules # <<>> /\ ~gen.success THEN 1 ELSE 0)]

\* clear_static_routes_from that stops at the first rule whose name does not
\* resolve
RECURSIVE clear_static_routes_from_stopping(_, _, _, _)
clear_static_routes_from_stopping(rules, i, env, acc) ==
    IF i > Len(rules)
    THEN [routes |-> acc.routes, dels |-> acc.dels, success |-> TRUE]
    ELSE
      LET rule == rules[i]
          ips == _resolve_domain(rule.pattern, env.dns)
          okIps == ips \ env.delFail
      IN
      IF ips = {}
      THEN [routes |-> acc.routes, dels |-> acc.dels, success |-> TRUE]
      ELSE clear_static_routes_from_stopping(rules, i + 1, env,
               [routes |-> {r \in acc.routes : r[1] \notin okIps},
                dels |-> Append(acc.dels, [rule |-> rule.id, ips |-> ips])])

\* RouteService.clear_static_routes(rules), from index i: "route DELETE ip"
\* for every address resolved from a gateway rule; env.delFail are the
\* addresses for which the command exits non-zero
RECURSIVE clear_static_routes_from(_, _, _, _)
clear_static_routes_from(rules, i, env, acc) ==
    IF i > Len(rules)
    THEN [routes |-> acc.routes, dels |-> acc.dels, success |-> TRUE]
    ELSE
      LET rule == rules[i]
          ips == _resolve_domain(rule.pattern, env.dns)
          okIps == ips \ env.delFail
      IN
      clear_static_routes_from(rules, i + 1, env,
          [routes |-> {r \in acc.routes : r[1] \notin okIps},
           dels |-> Append(acc.dels, [rule |-> rule.id, ips |-> ips])])

\* clear_static_routes that leaves the loop after the first gateway rule
clear_static_routes_first_only(rules, env, rt) ==
    LET gateway_rules == SelectSeq(rules, IsGatewayRule) IN
    clear_static_routes_from(
        IF gateway_rules = <<>> THEN <<>> ELSE <<gateway_rules[1]>>, 1, env,
        [routes |-> rt, dels |-> <<>>])

clear_static_routes(rules, env, rt) ==
    clear_static_routes_from(SelectSeq(rules, IsGatewayRule), 1, env,
        [routes |-> rt, dels |-> <<>>])

-----------------------------------------------------------------------------
(* The proxy bypass list: a ";"-separated string *)

Whitespace == {" "}

\* str.strip()
RECURSIVE Strip(_)
Strip(s) ==
    IF s = <<>> THEN s
    ELSE IF s[1] \in Whitespace THEN Strip(Tail(s))
    ELSE IF s[Len(s)] \in Whitespace THEN Strip(SubSeq(s, 1, Len(s) - 1))
    ELSE s

\* s.split(";")
RECURSIVE Split(_)
Split(s) ==
    IF \A i \in 1..Len(s) : s[i] # ";" THEN <<s>>
    ELSE LET i == CHOOSE k \in 1..Len(s) :
                      s[k] = ";" /\ \A m \in 1..(k - 1) : s[m] # ";"
         IN <<SubSeq(s, 1, i - 1)>> \o Split(SubSeq(s, i + 1, Len(s)))

\* ";".join(items)
RECURSIVE Join(_)
Join(items) ==
    IF items = <<>> THEN <<>>
    ELSE IF Len(items) = 1 THEN items[1]
    ELSE items[1] \o <<";">> \o Join(Tail(items))

NonEmpty(s) == s # <<>>

\* [b.strip() for b in existing_bypass.split(";") if b.strip()]
existing_items(bypass_list) ==
    SelectSeq([i \in 1..Len(Split(bypass_list)) |-> Strip(Split(bypass_list)[i])],
              NonEmpty)

InSeq(x, seq) == \E i \in 1..Len(seq) : seq[i] = x

\* add_bypass_domains without the test "domain not in existing_items"
add_bypass_domains_all(items, bypass_domains) == items \o bypass_domains

\* the loop that appends each derived domain not yet among the items
RECURSIVE add_bypass_domains(_, _)
add_bypass_domains(items, bypass_domains) ==
    IF bypass_domains = <<>> THEN items
    ELSE add_bypass_domains(
             IF InSeq(bypass_domains[1], items) THEN items
             ELSE Append(items, bypass_domains[1]),
             Tail(bypass_domains))

LocalTag == <<"<", "l", "o", "c", "a", "l", ">">>

\* ProxySettings.bypass_list default, "localhost;127.0.0.1"
DefaultBypassList ==
    <<"l", "o", "c", "a", "l", "h", "o", "s", "t", ";",
      "1", "2", "7", ".", "0", ".", "0", ".", "1">>

-----------------------------------------------------------------------------
(* services/network_service.py and services/proxy_service.py *)

\* NetworkService.apply_network_settings_sync(settings) on adapter state ad.
\* netFail names the netsh command that exits non-zero when it is run:
\* "address", "dns" (primary or DHCP), "dns2" (secondary); "none" otherwise.
\* A failed netsh command leaves the adapter as it was.
apply_network_settings_sync(settings, ad, netFail) ==
    LET Fail(a) == [adapter |-> a, success |-> FALSE]
        Ok(a) == [adapter |-> a, success |-> TRUE]
        Dns(a) ==
            IF settings.use_dhcp_dns
            THEN IF netFail = "dns" THEN Fail(a)
                 ELSE Ok([a EXCEPT !.dns = <<"dhcp">>])
            ELSE IF settings.primary_dns # ""
            THEN IF netFail = "dns" THEN Fail(a)
                 ELSE LET a1 == [a EXCEPT !.dns = <<"static", settings.primary_dns>>] IN
                      IF settings.secondary_dns # ""
                      THEN IF netFail = "dns2" THEN Fail(a1)
                           ELSE Ok([a EXCEPT !.dns = <<"static", settings.primary_dns,
                                                       settings.secondary_dns>>])
                      ELSE Ok(a1)
            ELSE Ok(a)
    IN
    IF settings.adapter_name = "" THEN Fail(ad)
    ELSE IF settings.use_dhcp
    THEN IF netFail = "address" THEN Fail(ad)
         ELSE Dns([ad EXCEPT !.addr = <<"dhcp">>])
    ELSE IF settings.ip_address = "" \/ settings.subnet_mask = "" THEN Fail(ad)
    ELSE IF netFail = "address" THEN Fail(ad)
    ELSE Dns([ad EXCEPT !.addr = <<"static", settings.ip_address, settings.subnet_mask,
                                   IF settings.gateway # "" THEN settings.gateway
                                   ELSE "none">>])

\* ProxySettings.full_proxy_address: "" or "server:port"
full_proxy_address(ps) ==
    IF ps.proxy_server = "" THEN <<>> ELSE <<ps.proxy_server, ":", ps.proxy_port>>

\* ProxyService.apply_proxy_settings(settings) on registry state reg.
\* proxyFail: "open" when OpenKey raises (PermissionError), "write" when the
\* SetValueEx after ProxyEnable raises, "none" otherwise.
\* handed holds the bypass list written to ProxyOverride, if one is written.
apply_proxy_settings(settings, reg, proxyFail) ==
    LET enable == IF settings.enabled THEN 1 ELSE 0
        bypass_list ==
            IF settings.bypass_local /\ ~Contains(LocalTag, settings.bypass_list)
            THEN IF settings.bypass_list # <<>>
                 THEN settings.bypass_list \o <<";">> \o LocalTag
                 ELSE LocalTag
            ELSE settings.bypass_list
    IN
    IF proxyFail = "open"
    THEN [registry |-> reg, success |-> FALSE, handed |-> <<>>]
    ELSE IF proxyFail = "write"
    THEN [registry |-> [reg EXCEPT !.ProxyEnable = enable],
          success |-> FALSE, handed |-> <<>>]
    ELSE IF settings.enabled
    THEN [registry |-> [ProxyEnable |-> enable,
                        ProxyServer |-> full_proxy_address(settings),
                        ProxyOverride |-> bypass_list],
          success |-> TRUE, handed |-> <<bypass_list>>]
    ELSE [registry |-> [reg EXCEPT !.ProxyEnable = enable, !.ProxyServer = <<>>],
          success |-> TRUE, handed |-> <<>>]

-----------------------------------------------------------------------------
(* models/profile.py: the persisted document.  A Python dict is a function *)
(* from keys to values; a JSON value is its kind and its text.             *)

\* a RouteRule with the dataclass defaults (models/profile.py)
DefaultRule ==
    [id |-> <<"r", 0>>, name |-> <<>>, pattern |-> <<>>, match_type |-> "exact",
     enabled |-> TRUE,
     use_custom_gateway |-> FALSE, custom_gateway |-> "",
     bypass_proxy |-> FALSE,
     use_custom_proxy |-> FALSE, custom_proxy_server |-> "", custom_proxy_port |-> 8080,
     use_custom_dns |-> FALSE, custom_dns |-> ""]

\* NetworkSettings(), ProxySettings() and AppSettings() with the dataclass
\* defaults
DefaultNetworkSettings ==
    [use_dhcp |-> TRUE, ip_address |-> "", subnet_mask |-> "255.255.255.0",
     gateway |-> "", use_dhcp_dns |-> TRUE, primary_dns |-> "",
     secondary_dns |-> "", adapter_name |-> ""]

DefaultProxySettings ==
    [enabled |-> FALSE, proxy_server |-> "", proxy_port |-> 8080,
     use_authentication |-> FALSE, bypass_list |-> DefaultBypassList,
     bypass_local |-> TRUE]

DefaultAppSettings == [selected_adapter_name |-> "", first_run_completed |-> FALSE]

\* the annotated types of the dataclass fields
RouteRuleTypes ==
    [id |-> "str", name |-> "str", pattern |-> "str", match_type |-> "str",
     enabled |-> "bool",
     use_custom_gateway |-> "bool", custom_gateway |-> "str",
     bypass_proxy |-> "bool",
     use_custom_proxy |-> "bool", custom_proxy_server |-> "str",
     custom_proxy_port |-> "int",
     use_custom_dns |-> "bool", custom_dns |-> "str"]

NetworkSettingsTypes ==
    [use_dhcp |-> "bool", ip_address |-> "str", subnet_mask |-> "str",
     gateway |-> "str", use_dhcp_dns |-> "bool", primary_dns |-> "str",
     secondary_dns |-> "str", adapter_name |-> "str"]

ProxySettingsTypes ==
    [enabled |-> "bool", proxy_server |-> "str", proxy_port |-> "int",
     use_authentication |-> "bool", bypass_list |-> "str", bypass_local |-> "bool"]

AppSettingsTypes == [selected_adapter_name |-> "str", first_run_completed |-> "bool"]

\* dataclasses.asdict(obj): one key per field
asdict(obj, types) == [k \in DOMAIN types |-> obj[k]]

\* cls(**data): the keys of data, the defaults for the fields data lacks
from_kwargs(data, defaults) ==
    [k \in DOMAIN defaults |-> IF k \in DOMAIN data THEN data[k] ELSE defaults[k]]

\* data.get(key, default)
dict_get(data, key, default) == IF key \in DOMAIN data THEN data[key] ELSE default

\* the digit of a value below ten
DigitChar(d) == CHOOSE c \in Digits : DigitVal(c) = d

\* repr of an int, as json.dumps writes it
RECURSIVE int_repr(_)
int_repr(n) ==
    IF n < 0 THEN <<"-">> \o int_repr(0 - n)
    ELSE IF n < 10 THEN <<DigitChar(n)>>
    ELSE int_repr(n \div 10) \o <<DigitChar(n % 10)>>

\* int(text), as json.loads reads a number
RECURSIVE int_parse(_, _)
int_parse(ds, acc) ==
    IF ds = <<>> THEN acc
    ELSE IF ds[1] = "-" THEN 0 - int_parse(Tail(ds), acc)
    ELSE int_parse(Tail(ds), acc * 10 + DigitVal(ds[1]))

\* json.dumps of one value of the given Python type
json_value(v, type) ==
    CASE type = "bool" -> [json |-> IF v THEN "true" ELSE "false", text |-> <<>>]
      [] type = "int" -> [json |-> "number", text |-> int_repr(v)]
      [] type = "optional" ->
            IF v = None THEN [json |-> "null", text |-> <<>>]
            ELSE [json |-> "string", text |-> v]
      [] type = "str" -> [json |-> "string", text |-> v]

\* json.dumps of a dict of such values
json_object(d, types) == [k \in DOMAIN d |-> json_value(d[k], types[k])]

\* json.loads of one value: the JSON kind decides the Python type
python_value(j) ==
    CASE j.json = "true" -> TRUE
      [] j.json = "false" -> FALSE
      [] j.json = "number" -> int_parse(j.text, 0)
      [] j.json = "null" -> None
      [] j.json = "string" -> j.text

\* json.loads of an object of such values
python_dict(o) == [k \in DOMAIN o |-> python_value(o[k])]

\* NetworkProfile.from_dict reading a key nobody writes for the rules
profile_from_dict_other_key(data) ==
    [id |-> dict_get(data, "id", <<"p", 0>>),
     name |-> dict_get(data, "name", <<"New Profile">>),
     is_default |-> dict_get(data, "is_default", FALSE),
     network_settings |->
        from_kwargs(dict_get(data, "network_settings", <<>>), DefaultNetworkSettings),
     proxy_settings |->
        from_kwargs(dict_get(data, "proxy_settings", <<>>), DefaultProxySettings),
     route_rules |->
        LET rs == dict_get(data, "rules", <<>>) IN
        [i \in 1..Len(rs) |-> from_kwargs(rs[i], DefaultRule)]]

\* NetworkProfile.to_dict
profile_to_dict(profile) ==
    [id |-> profile.id,
     name |-> profile.name,
     is_default |-> profile.is_default,
     network_settings |-> asdict(profile.network_settings, NetworkSettingsTypes),
     proxy_settings |-> asdict(profile.proxy_settings, ProxySettingsTypes),
     route_rules |-> [i \in 1..Len(profile.route_rules) |->
                         asdict(profile.route_rules[i], RouteRuleTypes)]]

\* NetworkProfile.from_dict
profile_from_dict(data) ==
    [id |-> dict_get(data, "id", <<"p", 0>>),
     name |-> dict_get(data, "name", <<"New Profile">>),
     is_default |-> dict_get(data, "is_default", FALSE),
     network_settings |->
        from_kwargs(dict_get(data, "network_settings", <<>>), DefaultNetworkSettings),
     proxy_settings |->
        from_kwargs(dict_get(data, "proxy_settings", <<>>), DefaultProxySettings),
     route_rules |->
        LET rs == dict_get(data, "route_rules", <<>>) IN
        [i \in 1..Len(rs) |-> from_kwargs(rs[i], DefaultRule)]]

\* ProfileCollection.to_dict
collection_to_dict(coll) ==
    [active_profile_id |-> coll.active_profile_id,
     profiles |-> [i \in 1..Len(coll.profiles) |-> profile_to_dict(coll.profiles[i])],
     settings |-> asdict(coll.settings, AppSettingsTypes)]

\* ProfileCollection.from_dict
collection_from_dict(data) ==
    [profiles |->
        LET ps == dict_get(data, "profiles", <<>>) IN
        [i \in 1..Len(ps) |-> profile_from_dict(ps[i])],
     active_profile_id |-> dict_get(data, "active_profile_id", None),
     settings |-> from_kwargs(dict_get(data, "settings", <<>>), DefaultAppSettings)]

\* json.dumps of the dict of a profile
json_profile(d) ==
    [id |-> json_value(d.id, "str"),
     name |-> json_value(d.name, "str"),
     is_default |-> json_value(d.is_default, "bool"),
     network_settings |-> json_object(d.network_settings, NetworkSettingsTypes),
     proxy_settings |-> json_object(d.proxy_settings, ProxySettingsTypes),
     route_rules |-> [i \in 1..Len(d.route_rules) |->
                         json_object(d.route_rules[i], RouteRuleTypes)]]

\* json.dumps of the dict of a collection
json_dumps(d) ==
    [active_profile_id |-> json_value(d.active_profile_id, "optional"),
     profiles |-> [i \in 1..Len(d.profiles) |-> json_profile(d.profiles[i])],
     settings |-> json_object(d.settings, AppSettingsTypes)]

\* json.loads of the object of a profile
python_profile(o) ==
    [id |-> python_value(o.id),
     name |-> python_value(o.name),
     is_default |-> python_value(o.is_default),
     network_settings |-> python_dict(o.network_settings),
     proxy_settings |-> python_dict(o.proxy_settings),
     route_rules |-> [i \in 1..Len(o.route_rules) |-> python_dict(o.route_rules[i])]]

\* json.loads of a document
json_loads(doc) ==
    [active_profile_id |-> python_value(doc.active_profile_id),
     profiles |-> [i \in 1..Len(doc.profiles) |-> python_profile(doc.profiles[i])],
     settings |-> python_dict(doc.settings)]

\* ProfileCollection.to_json and from_json
to_json(coll) == json_dumps(collection_to_dict(coll))

from_json(json_str) == collection_from_dict(json_loads(json_str))

-----------------------------------------------------------------------------
(* services/profile_manager.py: ProfileManager *)

\* the position of the profile with this id in the collection, 0 when absent
ProfileIndex(profiles, profile_id) ==
    IF \E i \in 1..Len(profiles) : profiles[i].id = profile_id
    THEN CHOOSE i \in 1..Len(profiles) :
             /\ profiles[i].id = profile_id
             /\ \A j \in 1..(i - 1) : profiles[j].id # profile_id
    ELSE 0

\* ProfileManager.get_profile(profile_id); None when absent
get_profile(coll, profile_id) ==
    LET i == ProfileIndex(coll.profiles, profile_id) IN
    IF i = 0 THEN [id |-> None] ELSE coll.profiles[i]

\* ProfileManager.save(): profiles.json after the write
save(coll) == [exists |-> TRUE, doc |-> to_json(coll)]

\* a new ProfileCollection()
EmptyCollection ==
    [profiles |-> <<>>, active_profile_id |-> None, settings |-> DefaultAppSettings]

\* ProfileManager.load(): the collection read from profiles.json
load(file) == IF file.exists THEN from_json(file.doc) ELSE EmptyCollection

\* the bypass list apply_profile stores in proxy_settings before it calls
\* the ProxyService
merged_bypass_list(proxy_settings, bypass_domains) ==
    IF bypass_domains # <<>> /\ proxy_settings.enabled
    THEN Join(add_bypass_domains(existing_items(proxy_settings.bypass_list),
                                 bypass_domains))
    ELSE proxy_settings.bypass_list

\* the route step of apply_profile: apply_route_rules is called only for a
\* profile that has rules
route_step(profile, proxy_settings, env, file, rt) ==
    IF profile.route_rules # <<>>
    THEN apply_route_rules(profile.route_rules, profile.network_settings.gateway,
                           proxy_settings.enabled, proxy_settings.proxy_server,
                           proxy_settings.proxy_port, env, file, rt)
    ELSE [pac |-> file, routes |-> rt, adds |-> <<>>, success |-> TRUE,
          steps |-> <<>>, warnings |-> 0]

\* the route step did not run
NoRouteResult == [ran |-> FALSE, success |-> TRUE, warnings |-> 0]

\* proxy_failed had the route step run before the proxy result is looked at
proxy_failed_after_routes(s, coll, network_result, proxy_result, route_result) ==
    [state |-> [s EXCEPT !.collection = coll,
                         !.adapter = network_result.adapter,
                         !.registry = proxy_result.registry,
                         !.pac = route_result.pac,
                         !.routes = route_result.routes],
     success |-> FALSE, steps |-> <<"network", "proxy">>,
     handed |-> proxy_result.handed, adds |-> <<>>, route |-> NoRouteResult]

\* proxy_failed had save() run although the proxy step failed
proxy_failed_saving(s, coll, network_result, proxy_result, route_result) ==
    [state |-> [s EXCEPT !.collection = coll,
                         !.disk = save(coll),
                         !.adapter = network_result.adapter,
                         !.registry = proxy_result.registry],
     success |-> FALSE, steps |-> <<"network", "proxy">>,
     handed |-> proxy_result.handed, adds |-> <<>>, route |-> NoRouteResult]

\* apply_profile's return when the proxy step fails: the route step, the
\* active-profile update and the save are not run
proxy_failed(s, coll, network_result, proxy_result, route_result) ==
    [state |-> [s EXCEPT !.collection = coll,
                         !.adapter = network_result.adapter,
                         !.registry = proxy_result.registry],
     success |-> FALSE, steps |-> <<"network", "proxy">>,
     handed |-> proxy_result.handed, adds |-> <<>>, route |-> NoRouteResult]

\* ProfileManager.apply_profile(profile_id) in state s = [collection, disk,
\* adapter, registry, pac, routes]; env holds the outcomes of the external
\* commands.  Result: the state after the call, the OperationResult's success,
\* the steps run, the bypass list handed to the ProxyService, the route
\* additions asked for and the route step's OperationResult.
apply_profile(s, profile_id, env) ==
    LET idx == ProfileIndex(s.collection.profiles, profile_id) IN
    IF idx = 0
    THEN [state |-> s, success |-> FALSE, steps |-> <<>>, handed |-> <<>>,
          adds |-> <<>>, route |-> NoRouteResult]
    ELSE
      LET profile == s.collection.profiles[idx]
          ns == IF profile.network_settings.adapter_name = ""
                THEN [profile.network_settings EXCEPT
                         !.adapter_name = s.collection.settings.selected_adapter_name]
                ELSE profile.network_settings
          coll1 == [s.collection EXCEPT !.profiles[idx].network_settings = ns]
          network_result == apply_network_settings_sync(ns, s.adapter, env.netFail)
          bypass_domains ==
              IF profile.route_rules # <<>>
              THEN get_bypass_list_from_rules(profile.route_rules)
              ELSE <<>>
          proxy_settings ==
              [profile.proxy_settings EXCEPT
                  !.bypass_list = merged_bypass_list(profile.proxy_settings,
                                                     bypass_domains)]
          coll2 == [coll1 EXCEPT !.profiles[idx].proxy_settings = proxy_settings]
          proxy_result == apply_proxy_settings(proxy_settings, s.registry, env.proxyFail)
          route_result == route_step([profile EXCEPT !.network_settings = ns],
                                     proxy_settings, env, s.pac, s.routes)
          coll3 == [coll2 EXCEPT !.active_profile_id = profile_id]
      IN
      IF ~network_result.success
      THEN [state |-> [s EXCEPT !.collection = coll1,
                                !.adapter = network_result.adapter],
            success |-> FALSE, steps |-> <<"network">>, handed |-> <<>>,
            adds |-> <<>>, route |-> NoRouteResult]
      ELSE IF ~proxy_result.success
      THEN proxy_failed(s, coll2, network_result, proxy_result, route_result)
      ELSE [state |-> [collection |-> coll3,
                       disk |-> save(coll3),
                       adapter |-> network_result.adapter,
                       registry |-> proxy_result.registry,
                       pac |-> route_result.pac,
                       routes |-> route_result.routes],
            success |-> TRUE,
            steps |-> <<"network", "proxy">>
                      \o (IF profile.route_rules # <<>> THEN <<"routes">> ELSE <<>>)
                      \o <<"active", "save", "callbacks">>,
            handed |-> proxy_result.handed,
            adds |-> route_result.adds,
            route |-> [ran |-> profile.route_rules # <<>>,
                       success |-> route_result.success,
                       warnings |-> route_result.warnings]]

\* delete_profile without the test of is_default
delete_profile_any(s, profile_id) ==
    IF ProfileIndex(s.collection.profiles, profile_id) = 0
    THEN [state |-> s, result |-> FALSE]
    ELSE
      LET Kept(p) == p.id # profile_id
          profiles == SelectSeq(s.collection.profiles, Kept)
          coll == [profiles |-> profiles,
                   active_profile_id |->
                      IF s.collection.active_profile_id = profile_id
                      THEN IF profiles # <<>> THEN profiles[1].id ELSE None
                      ELSE s.collection.active_profile_id,
                   settings |-> s.collection.settings]
      IN [state |-> [s EXCEPT !.collection = coll, !.disk = save(coll)],
          result |-> TRUE]

\* delete_profile that leaves active_profile_id as it is
delete_profile_keeping_active(s, profile_id) ==
    IF ProfileIndex(s.collection.profiles, profile_id) = 0
    THEN [state |-> s, result |-> FALSE]
    ELSE IF get_profile(s.collection, profile_id).is_default
    THEN [state |-> s, result |-> FALSE]
    ELSE
      LET Kept(p) == p.id # profile_id
          coll == [s.collection EXCEPT !.profiles = SelectSeq(@, Kept)]
      IN [state |-> [s EXCEPT !.collection = coll, !.disk = save(coll)],
          result |-> TRUE]

\* ProfileManager.delete_profile(profile_id): the state after the call and the
\* value returned
delete_profile(s, profile_id) ==
    IF ProfileIndex(s.collection.profiles, profile_id) = 0
    THEN [state |-> s, result |-> FALSE]
    ELSE IF get_profile(s.collection, profile_id).is_default
    THEN [state |-> s, result |-> FALSE]
    ELSE
      LET Kept(p) == p.id # profile_id
          profiles == SelectSeq(s.collection.profiles, Kept)
          coll == [profiles |-> profiles,
                   active_profile_id |->
                      IF s.collection.active_profile_id = profile_id
                      THEN IF profiles # <<>> THEN profiles[1].id ELSE None
                      ELSE s.collection.active_profile_id,
                   settings |-> s.collection.settings]
      IN [state |-> [s EXCEPT !.collection = coll, !.disk = save(coll)],
          result |-> TRUE]

\* RouteRule.clone() keeping the id of the original
rule_clone_same_id(rule, id) ==
    [rule EXCEPT !.name = IF @ # <<>> THEN Append(@, " (Copy)") ELSE <<>>]

\* RouteRule.clone(): a copy with a new id
rule_clone(rule, id) ==
    [rule EXCEPT !.id = id,
                 !.name = IF @ # <<>> THEN Append(@, " (Copy)") ELSE <<>>]

\* NetworkProfile.clone(): a copy with a new id that is never the default;
\* the ids n, n+1, ... are the new uuids
profile_clone(profile, n) ==
    [id |-> <<"p", n>>,
     name |-> Append(profile.name, " (Copy)"),
     is_default |-> FALSE,
     network_settings |-> profile.network_settings,
     proxy_settings |-> profile.proxy_settings,
     route_rules |-> [i \in 1..Len(profile.route_rules) |->
                         rule_clone(profile.route_rules[i], <<"r", n + i>>)]]

\* ProfileManager.add_profile(profile)
add_profile(s, profile) ==
    LET coll == [s.collection EXCEPT !.profiles = Append(@, profile)] IN
    [s EXCEPT !.collection = coll, !.disk = save(coll)]

\* ProfileManager.duplicate_profile(profile_id) of a profile that exists
duplicate_profile(s, profile_id, n) ==
    add_profile(s, profile_clone(get_profile(s.collection, profile_id), n))

-----------------------------------------------------------------------------
(* Values the operations are called with *)

\* the rule shapes of a list, each given the identifier of its position
WithIds(shapes) ==
    [i \in 1..Len(shapes) |-> [shapes[i] EXCEPT !.id = <<"r", i>>]]

ListsOver(S, n) == {WithIds(l) : l \in UNION {[1..k -> S] : k \in 0..n}}

\* patterns that exercise the regular expression parser
OverflowPattern ==
    <<"a", "{", "4", "2", "9", "4", "9", "6", "7", "2", "9", "5", "}">>

RegexPatterns ==
    {<<"(">>, <<"*", "a">>, <<"a", "*", "b">>, <<"a", "{", "2", "}">>,
     <<"a", "{", "4", "2", "9", "4", "9", "6", "7", "2", "9", "4", "}">>,
     OverflowPattern}

MatchPatterns == StrOver(Alphabet, MaxPat) \cup RegexPatterns
MatchDomains == StrOver(Alphabet, MaxDom)

\* rules handed to get_matching_rule
QueryRules ==
    {[DefaultRule EXCEPT !.pattern = p, !.match_type = mt, !.enabled = e] :
        p \in {<<"a">>, <<"b", ".", "a">>, OverflowPattern},
        mt \in {"exact", "suffix", "regex"},
        e \in BOOLEAN}
QueryDomains == {<<"a">>, <<"B", ".", "A">>, <<"b", "a">>}

\* rules handed to get_bypass_list_from_rules
BypassRules ==
    {[DefaultRule EXCEPT !.pattern = p, !.match_type = mt, !.enabled = e,
                         !.bypass_proxy = b] :
        p \in {<<"a">>, <<"a", ";", "b">>},
        mt \in {"exact", "suffix", "contains", "regex"},
        e \in BOOLEAN, b \in BOOLEAN}

\* rules handed to apply_route_rules and clear_static_routes
GatewayA ==
    [DefaultRule EXCEPT !.pattern = <<"*", ".", "a">>, !.match_type = "suffix",
                        !.use_custom_gateway = TRUE, !.custom_gateway = "192.168.1.1"]
GatewayB ==
    [DefaultRule EXCEPT !.pattern = <<"b">>,
                        !.use_custom_gateway = TRUE, !.custom_gateway = "192.168.2.1"]
BypassA ==
    [DefaultRule EXCEPT !.pattern = <<"a">>, !.bypass_proxy = TRUE]
CustomProxyB ==
    [DefaultRule EXCEPT !.name = <<"via p">>, !.pattern = <<"b">>, !.match_type = "suffix",
                        !.use_custom_proxy = TRUE, !.custom_proxy_server = "10.0.0.5",
                        !.custom_proxy_port = 3128]
\* a legacy record: use_custom_proxy set, no server
CustomProxyNoServer ==
    [DefaultRule EXCEPT !.pattern = <<"b">>, !.use_custom_proxy = TRUE]
\* a legacy record: both proxy overrides set
BypassAndCustom ==
    [CustomProxyB EXCEPT !.name = <<>>, !.bypass_proxy = TRUE]
NoOverride ==
    [DefaultRule EXCEPT !.pattern = <<"a">>]
\* a record whose match_type is none of the four the editor offers
GlobBypass ==
    [DefaultRule EXCEPT !.pattern = <<"a">>, !.match_type = "glob",
                        !.bypass_proxy = TRUE]
RegexCustom ==
    [DefaultRule EXCEPT !.pattern = <<"a", "*">>, !.match_type = "regex",
                        !.use_custom_proxy = TRUE, !.custom_proxy_server = "10.0.0.6"]

\* a bypass rule whose pattern was entered in upper case
BypassUpper ==
    [DefaultRule EXCEPT !.pattern = <<"A">>, !.bypass_proxy = TRUE]

\* a legacy record: use_custom_gateway set, no gateway address
GatewayNoAddress ==
    [DefaultRule EXCEPT !.pattern = <<"a">>, !.use_custom_gateway = TRUE]

Disabled(r) == [r EXCEPT !.enabled = FALSE]

RouteRules ==
    {GatewayA, Disabled(GatewayA), GatewayB, BypassA, Disabled(BypassA),
     CustomProxyB, CustomProxyNoServer, BypassAndCustom, NoOverride,
     GlobBypass, RegexCustom, GatewayNoAddress, BypassUpper}

\* resolver states: the addresses getaddrinfo returns for each name
Resolvers ==
    {[h \in {<<"a">>, <<"b">>} |-> {}],
     (<<"a">> :> {"1.1.1.1"}) @@ (<<"b">> :> {"2.2.2.2"}),
     (<<"a">> :> {"1.1.1.1", "2.2.2.2"}) @@ (<<"b">> :> {}),
     (<<"a">> :> {"1.1.1.1"}) @@ (<<"b">> :> {"1.1.1.1"})}

\* the outcomes of the external commands during one call: the resolver
\* state, the addresses whose "route ADD" / "route DELETE" exits non-zero,
\* and whether the PAC file can be written
RouteEnv(d, af, df, w) ==
    [dns |-> d, addFail |-> af, delFail |-> df, pacWriteOk |-> w]

\* the outcomes that bear on the routing table, the PAC file being writable
RouteEnvs ==
    {RouteEnv(d, af, df, TRUE) :
        d \in Resolvers,
        af \in {{}, {"1.1.1.1"}, {"1.1.1.1", "2.2.2.2"}},
        df \in {{}, {"1.1.1.1"}}}

\* the outcomes that bear on the PAC file, every name resolving
PacEnvs ==
    {RouteEnv((<<"a">> :> {"1.1.1.1"}) @@ (<<"b">> :> {"2.2.2.2"}), {}, {}, w) :
        w \in BOOLEAN}

\* the profile's default proxy as handed to apply_route_rules
DefaultProxies ==
    {[enabled |-> FALSE, server |-> "", port |-> 8080],
     [enabled |-> FALSE, server |-> "proxy", port |-> 8080],
     [enabled |-> TRUE, server |-> "", port |-> 8080],
     [enabled |-> TRUE, server |-> "proxy", port |-> 8080]}

-----------------------------------------------------------------------------
(* Initial state: ProfileManager.__init__ on a system with no PAC file *)

Init ==
    /\ collection = [profiles |-> <<>>, active_profile_id |-> None,
                     settings |-> [selected_adapter_name |-> "",
                                   first_run_completed |-> FALSE]]
    /\ disk = [exists |-> FALSE]
    /\ adapter = [addr |-> <<"dhcp">>, dns |-> <<"dhcp">>]
    /\ registry = [ProxyEnable |-> 0, ProxyServer |-> <<>>, ProxyOverride |-> <<>>]
    /\ pac = NoPac
    /\ routes = {}
    /\ nextId = 1
    /\ last = [op |-> "init"]
    /\ input = [fn |-> "none"]

-----------------------------------------------------------------------------
(* Direct calls of the rule matcher, the bypass list builder and the       *)
(* RouteService.  The arguments are drawn in the initial state; the PAC    *)
(* file and the routing table start as an earlier run may have left them.  *)

StalePac == pac_content(<<BypassA>>, FALSE, "", 8080)

\* the outcomes of the external commands during one apply_profile: the netsh
\* command that fails, how the registry write fails, and for the route step
\* the resolver state, the failing "route ADD"s and whether the PAC file can
\* be written
ApplyEnv(nf, pf, d, af, w) ==
    [netFail |-> nf, proxyFail |-> pf, dns |-> d, addFail |-> af, pacWriteOk |-> w]

AllResolve == (<<"a">> :> {"1.1.1.1"}) @@ (<<"b">> :> {"2.2.2.2"})

NoneResolve == [h \in {<<"a">>, <<"b">>} |-> {}]

ApplyEnvs ==
    {ApplyEnv(nf, "none", AllResolve, {}, TRUE) : nf \in {"address", "dns", "dns2"}}
    \cup {ApplyEnv("none", pf, AllResolve, {}, TRUE) : pf \in {"open", "write"}}
    \cup {ApplyEnv("none", "none", AllResolve, {}, TRUE),
          ApplyEnv("none", "none", NoneResolve, {}, TRUE),
          ApplyEnv("none", "none", AllResolve, {"1.1.1.1"}, TRUE),
          ApplyEnv("none", "none", AllResolve, {}, FALSE)}

State == [collection |-> collection, disk |-> disk, adapter |-> adapter,
          registry |-> registry, pac |-> pac, routes |-> routes]

SetState(s) ==
    /\ collection' = s.collection
    /\ disk' = s.disk
    /\ adapter' = s.adapter
    /\ registry' = s.registry
    /\ pac' = s.pac
    /\ routes' = s.routes

\* the bypass lists stored in a profile before it is applied
StoredBypassLists ==
    {DefaultBypassList,
     <<>>,
     <<"a">>,
     <<" ", "a", ";", ";", "*", ".", "a", " ">>,
     <<"*", "a", "*", ";", "a", ";", "b">>}

\* a collection of one profile with this proxy state, bypass list and rules
OneProfile(enabled, bypass_list, rules) ==
    [profiles |->
        <<[id |-> <<"p", 1>>, name |-> <<"New Profile">>, is_default |-> FALSE,
           network_settings |-> [DefaultNetworkSettings EXCEPT !.adapter_name = "Ethernet"],
           proxy_settings |-> [DefaultProxySettings EXCEPT !.enabled = enabled,
                                                           !.proxy_server = "proxy",
                                                           !.bypass_list = bypass_list],
           route_rules |-> rules]>>,
     active_profile_id |-> None,
     settings |-> [selected_adapter_name |-> "Ethernet", first_run_completed |-> TRUE]]

\* a rule with no field at its default, a copy made in the editor, and rules
\* with the smallest and the largest port
FullRule ==
    [id |-> <<"r", 0>>, name |-> <<"n">>, pattern |-> <<"a", ".", "b">>,
     match_type |-> "regex", enabled |-> FALSE,
     use_custom_gateway |-> TRUE, custom_gateway |-> "192.168.1.1",
     bypass_proxy |-> TRUE,
     use_custom_proxy |-> TRUE, custom_proxy_server |-> "proxy2",
     custom_proxy_port |-> 3128,
     use_custom_dns |-> TRUE, custom_dns |-> "8.8.8.8"]

StoredRules ==
    {DefaultRule, FullRule, GatewayA,
     [FullRule EXCEPT !.name = <<"n", " (Copy)">>, !.enabled = TRUE,
                      !.custom_proxy_port = 65535],
     [CustomProxyB EXCEPT !.custom_proxy_port = 0, !.match_type = "suffix"]}

\* a stored profile with these rules
StoredProfile(n, default, rules) ==
    [id |-> <<"p", n>>,
     name |-> IF default THEN <<"Default (Current Settings)">> ELSE <<"New Profile">>,
     is_default |-> default,
     network_settings |-> [DefaultNetworkSettings EXCEPT !.adapter_name = "Ethernet"],
     proxy_settings |-> [DefaultProxySettings EXCEPT !.enabled = ~default],
     route_rules |-> rules]

\* collections of one or two profiles
StoredCollections ==
    {[profiles |-> <<StoredProfile(1, TRUE, r1)>>, active_profile_id |-> a,
      settings |-> [selected_adapter_name |-> "Ethernet", first_run_completed |-> TRUE]] :
        r1 \in ListsOver(StoredRules, MaxRules), a \in {None, <<"p", 1>>}}
    \cup
    {[profiles |-> <<StoredProfile(1, TRUE, r1), StoredProfile(2, FALSE, r2)>>,
      active_profile_id |-> <<"p", 2>>,
      settings |-> [selected_adapter_name |-> "Ethernet", first_run_completed |-> TRUE]] :
        r1 \in ListsOver(StoredRules, 1), r2 \in ListsOver(StoredRules, MaxRules)}

Inputs ==
    {[fn |-> "matches",
      rule |-> [DefaultRule EXCEPT !.pattern = p, !.match_type = mt], domain |-> d] :
        p \in MatchPatterns, mt \in MatchTypes, d \in MatchDomains}
    \cup
    {[fn |-> "get_matching_rule", rules |-> rules, domain |-> d] :
        rules \in ListsOver(QueryRules, MaxRules), d \in QueryDomains}
    \cup
    {[fn |-> "get_bypass_list_from_rules", rules |-> rules] :
        rules \in ListsOver(BypassRules, MaxRules)}
    \cup
    {[fn |-> "route", rules |-> rules, dp |-> dp, env |-> env,
      file |-> NoPac, rt |-> rt] :
        rules \in ListsOver(RouteRules, MaxRouteRules),
        dp \in {[enabled |-> TRUE, server |-> "proxy", port |-> 8080]},
        env \in RouteEnvs,
        rt \in {{}, {<<"2.2.2.2", "192.168.1.1">>}}}
    \cup
    {[fn |-> "route", rules |-> rules, dp |-> dp, env |-> env,
      file |-> file, rt |-> {}] :
        rules \in ListsOver(RouteRules, MaxRouteRules),
        dp \in DefaultProxies, env \in PacEnvs,
        file \in {NoPac, StalePac}}
    \cup
    {[fn |-> "store", coll |-> coll] : coll \in StoredCollections}
    \cup
    {[fn |-> "apply", coll |-> OneProfile(e, bl, rules)] :
        e \in BOOLEAN, bl \in StoredBypassLists,
        rules \in ListsOver(BypassRules, MaxRules)}

InitRules ==
    /\ input \in Inputs
    /\ collection = IF input.fn \in {"store", "apply"} THEN input.coll
                    ELSE EmptyCollection
    /\ disk = [exists |-> FALSE]
    /\ adapter = [addr |-> <<"dhcp">>, dns |-> <<"dhcp">>]
    /\ registry = [ProxyEnable |-> 0, ProxyServer |-> <<>>, ProxyOverride |-> <<>>]
    /\ nextId = 1
    /\ last = [op |-> "init"]
    /\ pac = IF input.fn = "route" THEN input.file ELSE NoPac
    /\ routes = IF input.fn = "route" THEN input.rt ELSE {}

\* rule.matches(domain)
Matches ==
    /\ input.fn = "matches"
    /\ last.op = "init"
    /\ last' = [op |-> "matches", out |-> matches(input.rule, input.domain)]
    /\ UNCHANGED <<collection, disk, adapter, registry, pac, routes, nextId, input>>

\* profile.get_matching_rule(domain)
GetMatchingRule ==
    /\ input.fn = "get_matching_rule"
    /\ last.op = "init"
    /\ last' = [op |-> "get_matching_rule",
                out |-> get_matching_rule(input.rules, input.domain)]
    /\ UNCHANGED <<collection, disk, adapter, registry, pac, routes, nextId, input>>

\* route_service.get_bypass_list_from_rules(rules)
GetBypassList ==
    /\ input.fn = "get_bypass_list_from_rules"
    /\ last.op = "init"
    /\ last' = [op |-> "get_bypass_list_from_rules",
                out |-> get_bypass_list_from_rules(input.rules)]
    /\ UNCHANGED <<collection, disk, adapter, registry, pac, routes, nextId, input>>

\* route_service.apply_route_rules(rules, default_gateway, ...)
RouteApply ==
    /\ input.fn = "route"
    /\ last.op = "init"
    /\ LET out == apply_route_rules(input.rules, "", input.dp.enabled, input.dp.server,
                                    input.dp.port, input.env, pac, routes)
       IN
       /\ pac' = out.pac
       /\ routes' = out.routes
       /\ last' = [op |-> "apply_route_rules",
                   pre |-> [pac |-> pac, routes |-> routes], out |-> out]
    /\ UNCHANGED <<collection, disk, adapter, registry, nextId, input>>

\* route_service.clear_static_routes(rules), first or after apply_route_rules
RouteClear ==
    /\ input.fn = "route"
    /\ last.op \in {"init", "apply_route_rules"}
    /\ LET out == clear_static_routes(input.rules, input.env, routes) IN
       /\ routes' = out.routes
       /\ last' = [op |-> "clear_static_routes", after |-> last.op,
                   pre |-> [pac |-> pac, routes |-> routes], out |-> out]
    /\ UNCHANGED <<collection, disk, adapter, registry, pac, nextId, input>>

\* profile_manager.save() on the collection in memory
Save ==
    /\ input.fn = "store"
    /\ last.op = "init"
    /\ disk' = save(collection)
    /\ last' = [op |-> "save"]
    /\ UNCHANGED <<collection, adapter, registry, pac, routes, nextId, input>>

\* profile_manager.load() at the next start of the application
Load ==
    /\ input.fn = "store"
    /\ last.op = "save"
    /\ collection' = load(disk)
    /\ last' = [op |-> "load"]
    /\ UNCHANGED <<disk, adapter, registry, pac, routes, nextId, input>>

\* profile_manager.apply_profile(profile_id) on the one profile of the
\* collection, every external command succeeding
ApplyStored ==
    /\ input.fn = "apply"
    /\ last.op = "init"
    /\ \E r \in {apply_profile(State, collection.profiles[1].id,
                                ApplyEnv("none", "none", AllResolve, {}, TRUE))} :
          /\ SetState(r.state)
          /\ last' = [op |-> "apply_profile", pid |-> collection.profiles[1].id,
                      success |-> r.success, steps |-> r.steps, handed |-> r.handed,
                      adds |-> r.adds, route |-> r.route]
    /\ UNCHANGED <<nextId, input>>

NextRules ==
    \/ Matches
    \/ GetMatchingRule
    \/ GetBypassList
    \/ RouteApply
    \/ RouteClear
    \/ Save
    \/ Load
    \/ ApplyStored

SpecRules == InitRules /\ [][NextRules]_vars

-----------------------------------------------------------------------------
(* The profile manager driven by the application *)

\* a bypass rule whose pattern holds the separator of the bypass list
BypassSemi ==
    [DefaultRule EXCEPT !.pattern = <<"a", ";", "b">>, !.bypass_proxy = TRUE]

\* the rule lists a user enters for a new profile
ProfileRuleLists ==
    {<<GatewayA, BypassA>>, <<CustomProxyB>>, <<BypassSemi>>}

\* NetworkSettings a user enters
StaticNetwork ==
    [use_dhcp |-> FALSE, ip_address |-> "192.168.1.50", subnet_mask |-> "255.255.255.0",
     gateway |-> "192.168.1.1", use_dhcp_dns |-> FALSE, primary_dns |-> "8.8.8.8",
     secondary_dns |-> "8.8.4.4", adapter_name |-> ""]

\* ProxySettings a user enters
ProxyOff ==
    [enabled |-> FALSE, proxy_server |-> "", proxy_port |-> 8080,
     use_authentication |-> FALSE, bypass_list |-> DefaultBypassList,
     bypass_local |-> TRUE]
ProxyOn == [ProxyOff EXCEPT !.enabled = TRUE, !.proxy_server = "proxy"]

\* NetworkService.get_current_settings(adapter_name): the adapter's state as
\* NetworkSettings
get_current_network_settings(ad, adapter_name) ==
    [use_dhcp |-> ad.addr[1] = "dhcp",
     ip_address |-> IF ad.addr[1] = "static" THEN ad.addr[2] ELSE "",
     subnet_mask |-> IF ad.addr[1] = "static" THEN ad.addr[3] ELSE "",
     gateway |-> IF ad.addr[1] = "static" /\ ad.addr[4] # "none" THEN ad.addr[4] ELSE "",
     use_dhcp_dns |-> ad.addr[1] = "dhcp",
     primary_dns |-> IF Len(ad.dns) >= 2 THEN ad.dns[2] ELSE "",
     secondary_dns |-> IF Len(ad.dns) >= 3 THEN ad.dns[3] ELSE "",
     adapter_name |-> adapter_name]

\* ProxyService.get_current_settings(): the registry values as ProxySettings
get_current_proxy_settings(reg) ==
    [enabled |-> reg.ProxyEnable = 1,
     proxy_server |-> IF reg.ProxyServer # <<>> THEN reg.ProxyServer[1] ELSE "",
     proxy_port |-> IF reg.ProxyServer # <<>> THEN reg.ProxyServer[3] ELSE 8080,
     use_authentication |-> FALSE,
     bypass_list |-> reg.ProxyOverride,
     bypass_local |-> Contains(LocalTag, reg.ProxyOverride)]

\* ProfileManager.initialize_first_run(adapter_name), called by main.py at
\* start-up, before the main window can add a profile
InitializeFirstRun ==
    /\ ~collection.settings.first_run_completed
    /\ collection.profiles = <<>>
    /\ LET default_profile ==
               [id |-> <<"p", nextId>>, name |-> <<"Default (Current Settings)">>,
                is_default |-> TRUE,
                network_settings |-> get_current_network_settings(adapter, "Ethernet"),
                proxy_settings |-> get_current_proxy_settings(registry),
                route_rules |-> <<>>]
           coll == [profiles |-> Append(collection.profiles, default_profile),
                    active_profile_id |-> default_profile.id,
                    settings |-> [selected_adapter_name |-> "Ethernet",
                                  first_run_completed |-> TRUE]]
       IN
       /\ collection' = coll
       /\ disk' = save(coll)
       /\ nextId' = nextId + 1
       /\ last' = [op |-> "initialize_first_run", pid |-> default_profile.id]
    /\ UNCHANGED <<adapter, registry, pac, routes, input>>

\* the adapter selected in the main window's combo box ("" when none)
currentAdapter(coll) == coll.settings.selected_adapter_name

\* rules created in the rule editor take fresh identifiers
FreshIds(rules, n) ==
    [i \in 1..Len(rules) |-> [rules[i] EXCEPT !.id = <<"r", n + i>>]]

\* MainWindow._add_profile: a profile built in the editor with one of the
\* given rule lists, then ProfileManager.add_profile.  The user adds a profile
\* when the list shows no profile of theirs.
AddProfileWith(ruleLists) ==
    \E ps \in {ProxyOn}, rules \in ruleLists :
        /\ \A i \in 1..Len(collection.profiles) : collection.profiles[i].is_default
        /\ nextId <= MaxId
        /\ LET profile ==
                   [id |-> <<"p", nextId>>, name |-> <<"New Profile">>,
                    is_default |-> FALSE,
                    network_settings |->
                        [StaticNetwork EXCEPT !.adapter_name = currentAdapter(collection)],
                    proxy_settings |-> ps,
                    route_rules |-> FreshIds(rules, nextId)]
               coll == [collection EXCEPT !.profiles = Append(@, profile)]
           IN
           /\ collection' = coll
           /\ disk' = save(coll)
           /\ nextId' = nextId + 1 + Len(rules)
           /\ last' = [op |-> "add_profile", pid |-> profile.id]
        /\ UNCHANGED <<adapter, registry, pac, routes, input>>

AddProfile == AddProfileWith(ProfileRuleLists)

\* RouteRule.clone() as the editors use it: a copy that keeps the original id
editor_clone(rule) ==
    [rule EXCEPT !.name = IF @ # <<>> THEN Append(@, " (Copy)") ELSE <<>>]

editor_clones(rules) == [i \in 1..Len(rules) |-> editor_clone(rules[i])]

RemoveAt(seq, i) == SubSeq(seq, 1, i - 1) \o SubSeq(seq, i + 1, Len(seq))

\* the changes a user makes in the route rules dialog
RuleChanges(rules) ==
    {<<"open">>}
    \cup {<<"toggle", i>> : i \in 1..Len(rules)}
    \cup {<<"delete", i>> : i \in 1..Len(rules)}

\* RouteRulesEditorDialog: opened on rules, one change made, accepted
rules_dialog(rules, change) ==
    LET copies == editor_clones(rules) IN
    CASE change[1] = "open" -> copies
      [] change[1] = "toggle" ->
            [copies EXCEPT ![change[2]].enabled = ~copies[change[2]].enabled]
      [] change[1] = "delete" -> RemoveAt(copies, change[2])

\* the longest rule name of a profile, in parts
LongestName(rules) ==
    IF rules = <<>> THEN 0
    ELSE CHOOSE n \in {Len(rules[i].name) : i \in 1..Len(rules)} :
             \A i \in 1..Len(rules) : Len(rules[i].name) <= n

\* ProfileManager.update_profile(profile)
update_profile(coll, profile) ==
    LET i == ProfileIndex(coll.profiles, profile.id) IN
    IF i = 0 THEN coll ELSE [coll EXCEPT !.profiles[i] = profile]

\* the bypass entries of the enabled bypass rule that the change disables or
\* deletes, for a profile with the proxy enabled
dropped_entries(stored, change) ==
    IF change[1] \in {"toggle", "delete"} /\ stored.proxy_settings.enabled
       /\ stored.route_rules[change[2]].enabled
    THEN LET l == get_bypass_list_from_rules(<<stored.route_rules[change[2]]>>) IN
         {l[k] : k \in 1..Len(l)}
    ELSE {}

\* MainWindow._edit_profile: ProfileEditorDialog on the stored profile, the
\* route rules dialog opened or not, saved, then ProfileManager.update_profile
EditProfile ==
    \E i \in 1..Len(collection.profiles) :
        LET stored == collection.profiles[i]
            editing == [stored EXCEPT !.route_rules = editor_clones(@)]
        IN
        \E change \in {<<"none">>} \cup RuleChanges(stored.route_rules) :
            LET edited ==
                    IF change[1] = "none" THEN editing
                    ELSE [editing EXCEPT !.route_rules = rules_dialog(@, change)]
                named ==
                    IF currentAdapter(collection) # ""
                    THEN [edited EXCEPT
                             !.network_settings.adapter_name = currentAdapter(collection)]
                    ELSE edited
                coll == update_profile(collection, named)
            IN
            /\ LongestName(stored.route_rules) + 2 <= 1 + MaxCopies
            /\ collection' = coll
            /\ disk' = save(coll)
            /\ last' = [op |-> "update_profile", pid |-> stored.id, change |-> change,
                        dropped |-> dropped_entries(stored, change),
                        applied |-> /\ last.op = "apply_profile"
                                    /\ last.success
                                    /\ last.pid = stored.id]
            /\ UNCHANGED <<adapter, registry, pac, routes, nextId, input>>

\* ProfileManager.apply_profile(profile_id), from the main window or the tray
ApplyProfile ==
    \E i \in 1..Len(collection.profiles), env \in ApplyEnvs :
        /\ Len(collection.profiles[i].proxy_settings.bypass_list) <= MaxBypassLen
        /\ \E r \in {apply_profile(State, collection.profiles[i].id, env)} :
              /\ SetState(r.state)
              /\ last' = [op |-> "apply_profile", pid |-> collection.profiles[i].id,
                          env |-> env, success |-> r.success, steps |-> r.steps,
                          handed |-> r.handed, adds |-> r.adds, route |-> r.route]
        /\ UNCHANGED <<nextId, input>>

Next ==
    \/ InitializeFirstRun
    \/ AddProfile
    \/ EditProfile
    \/ ApplyProfile

Spec == Init /\ [][Next]_vars

-----------------------------------------------------------------------------
(* The profile list of the main window and the tray menu *)

\* the outcomes of the external commands when a profile is applied from the
\* tray menu
TrayEnvs == {ApplyEnv("none", "none", AllResolve, {}, TRUE)}

\* MainWindow._add_profile of a profile with one bypass rule
AddBypassProfile == AddProfileWith({<<BypassA>>})

\* SystemTray._apply_profile: ProfileManager.apply_profile(profile_id)
TrayApplyProfile ==
    \E i \in 1..Len(collection.profiles), env \in TrayEnvs :
        /\ Len(collection.profiles[i].proxy_settings.bypass_list) <= MaxBypassLen
        /\ \E r \in {apply_profile(State, collection.profiles[i].id, env)} :
              /\ SetState(r.state)
              /\ last' = [op |-> "apply_profile", pid |-> collection.profiles[i].id,
                          env |-> env, success |-> r.success, steps |-> r.steps,
                          handed |-> r.handed, adds |-> r.adds, route |-> r.route]
        /\ UNCHANGED <<nextId, input>>

\* MainWindow._duplicate_profile: ProfileManager.duplicate_profile on the
\* selected profile
DuplicateProfile ==
    \E i \in 1..Len(collection.profiles) :
        /\ Len(collection.profiles) < MaxProfiles
        /\ Len(collection.profiles[i].name) <= MaxCopies
        /\ nextId <= MaxId
        /\ SetState(duplicate_profile(State, collection.profiles[i].id, nextId))
        /\ nextId' = nextId + 1 + Len(collection.profiles[i].route_rules)
        /\ last' = [op |-> "duplicate_profile", pid |-> <<"p", nextId>>,
                    of |-> collection.profiles[i].id]
        /\ UNCHANGED input

\* ProfileManager.delete_profile(profile_id) on the id of a stored profile or
\* on an id no profile has
DeleteProfile ==
    \E profile_id \in {collection.profiles[i].id : i \in 1..Len(collection.profiles)}
                      \cup {<<"p", 0>>} :
        \E r \in {delete_profile(State, profile_id)} :
            /\ SetState(r.state)
            /\ last' = [op |-> "delete_profile", pid |-> profile_id,
                        result |-> r.result,
                        active |-> collection.active_profile_id]
            /\ UNCHANGED <<nextId, input>>

\* RouteRulesEditorDialog._add_rule: RouteRule() with a new uuid, filled in
\* and accepted in RouteRuleEditorDialog, appended to the dialog's copies
add_rule(rules, shape, id) ==
    Append(editor_clones(rules), [shape EXCEPT !.id = id])

\* MainWindow._edit_profile with a rule added in the route rules dialog, saved,
\* then ProfileManager.update_profile
EditProfileAddRule ==
    \E i \in 1..Len(collection.profiles) :
        LET stored == collection.profiles[i]
            editing == [stored EXCEPT !.route_rules = editor_clones(@)]
            edited == [editing EXCEPT
                          !.route_rules = add_rule(@, BypassA, <<"r", nextId>>)]
            named ==
                IF currentAdapter(collection) # ""
                THEN [edited EXCEPT
                         !.network_settings.adapter_name = currentAdapter(collection)]
                ELSE edited
            coll == update_profile(collection, named)
        IN
        /\ nextId <= MaxId
        /\ Len(stored.route_rules) < MaxRules
        /\ LongestName(stored.route_rules) + 2 <= 1 + MaxCopies
        /\ collection' = coll
        /\ disk' = save(coll)
        /\ nextId' = nextId + 1
        /\ last' = [op |-> "update_profile", pid |-> stored.id, change |-> <<"add">>,
                    dropped |-> {},
                    applied |-> /\ last.op = "apply_profile"
                                /\ last.success
                                /\ last.pid = stored.id]
        /\ UNCHANGED <<adapter, registry, pac, routes, input>>

\* MainWindow._on_adapter_changed: the one adapter of the machine is chosen in
\* the combo box when none was chosen before, and the collection is saved
OnAdapterChanged ==
    /\ currentAdapter(collection) # "Ethernet"
    /\ LET coll == [collection EXCEPT !.settings.selected_adapter_name = "Ethernet"]
       IN /\ collection' = coll
          /\ disk' = save(coll)
    /\ last' = [op |-> "on_adapter_changed"]
    /\ UNCHANGED <<adapter, registry, pac, routes, nextId, input>>

NextProfiles ==
    \/ InitializeFirstRun
    \/ OnAdapterChanged
    \/ AddBypassProfile
    \/ EditProfile
    \/ EditProfileAddRule
    \/ DuplicateProfile
    \/ DeleteProfile
    \/ TrayApplyProfile

SpecProfiles == Init /\ [][NextProfiles]_vars

-----------------------------------------------------------------------------
(* Properties of apply_profile, checked under Spec *)

AppliedOK == last.op = "apply_profile" /\ last.success

\* the profile the last operation was called on, as stored now
LastProfile == get_profile(collection, last.pid)

HasEnabledRule(profile) ==
    \E i \in 1..Len(profile.route_rules) : profile.route_rules[i].enabled

\* C1: after a successful apply_profile of a profile with zero enabled route
\* rules (an empty rule list included) the PAC file does not exist.
C1_NoOrphanPac ==
    (AppliedOK /\ ~HasEnabledRule(LastProfile)) => pac = NoPac

\* the host routes the enabled gateway rules of a profile specify under a
\* resolver state
SpecifiedRoutes(profile, dns) ==
    UNION {{<<ip, profile.route_rules[i].custom_gateway>> :
               ip \in _resolve_domain(profile.route_rules[i].pattern, dns)} :
           i \in {k \in 1..Len(profile.route_rules) :
                     /\ profile.route_rules[k].enabled
                     /\ profile.route_rules[k].use_custom_gateway
                     /\ profile.route_rules[k].custom_gateway # ""}}

\* the host routes an apply added: the additions asked for that succeeded
AddedRoutes(adds, addFail) ==
    UNION {{<<ip, adds[k].gateway>> : ip \in adds[k].ips \ addFail} :
              k \in 1..Len(adds)}

\* C2: when apply_profile(B) succeeds right after apply_profile(A) succeeded,
\* the routing table holds no host route added for A unless B's enabled
\* gateway rules specify it.
C2_NoStaleRoutes ==
    [][(AppliedOK /\ AppliedOK')
        => \A r \in AddedRoutes(last.adds, last.env.addFail) :
              r \in routes' =>
                 r \in SpecifiedRoutes(get_profile(collection', last'.pid),
                                       last'.env.dns)]_vars

\* the entries of a bypass list
Entries(bypass_list) ==
    LET l == existing_items(bypass_list) IN {l[k] : k \in 1..Len(l)}

\* C3: a profile with the proxy enabled is applied with an enabled bypass
\* rule R, R is then disabled or removed, and the profile is applied again:
\* the bypass list handed to the proxy service holds no entry derived from R.
C3_BypassReverted ==
    [][(/\ last.op = "update_profile" /\ last.applied
        /\ last'.op = "apply_profile" /\ last'.pid = last.pid
        /\ last'.handed # <<>>)
        => \A e \in last.dropped : e \notin Entries(last'.handed[1])]_vars

\* C4: applying the same profile twice in a row with the same outcomes of
\* the external commands leaves the PAC file, the bypass list written to the
\* registry, the host routes and the stored profile as after the first apply.
C4_ReapplyIdempotent ==
    [][(AppliedOK /\ AppliedOK' /\ last'.pid = last.pid /\ last'.env = last.env)
        => /\ pac' = pac
           /\ routes' = routes
           /\ last'.handed = last.handed
           /\ registry' = registry
           /\ get_profile(collection', last.pid) = get_profile(collection, last.pid)]_vars

ApplyFailed == last.op = "apply_profile" /\ ~last.success

-----------------------------------------------------------------------------
(* Properties of the rule matcher and the RouteService, checked under      *)
(* SpecRules                                                               *)

\* the rule matches the domain: the call returns, and returns true
Matching(rule, domain) ==
    matches(rule, domain).exc = "none" /\ matches(rule, domain).val

\* C6: get_matching_rule returns the rule with the smallest index among the
\* enabled rules that match the domain, and None when there is none (empty
\* list, all rules disabled, or no enabled rule matches).
C6_FirstMatch ==
    last.op = "get_matching_rule" =>
        LET M == {i \in 1..Len(input.rules) :
                     input.rules[i].enabled /\ Matching(input.rules[i], input.domain)}
        IN
        /\ last.out.exc = "none"
        /\ M = {} => last.out.idx = 0
        /\ M # {} => last.out.idx \in M /\ \A i \in M : last.out.idx <= i

Labels == StrOver(Alphabet, MaxDom) \ {<<>>}

\* C7: a suffix rule with non-empty pattern P matches P, matches x.P for
\* every non-empty x, and does not match xP when x does not end in a dot.
C7_SuffixMatch ==
    (last.op = "matches" /\ input.rule.match_type = "suffix"
        /\ input.rule.pattern # <<>>) =>
        LET P == input.rule.pattern
            d == input.domain
        IN
        /\ last.out.exc = "none"
        /\ d = P => last.out.val
        /\ \A x \in Labels :
              /\ d = x \o <<".">> \o P => last.out.val
              /\ (x[Len(x)] # "." /\ d = x \o P) => ~last.out.val

\* a suffix rule was asked about "a" + P, and did not match
C7_Witness ==
    /\ last.op = "matches"
    /\ input.rule.match_type = "suffix"
    /\ input.rule.pattern # <<>>
    /\ input.domain = <<"a">> \o input.rule.pattern
    /\ ~last.out.val

\* two characters equal up to case
SameLetter(c, d) == c = d \/ {c, d} = {"a", "A"} \/ {c, d} = {"b", "B"}

\* C8: an exact rule matches a domain iff the domain and the pattern are
\* non-empty and equal up to case.
C8_ExactMatch ==
    (last.op = "matches" /\ input.rule.match_type = "exact") =>
        LET P == input.rule.pattern
            d == input.domain
        IN
        /\ last.out.exc = "none"
        /\ last.out.val <=> /\ P # <<>>
                            /\ d # <<>>
                            /\ Len(d) = Len(P)
                            /\ \A i \in 1..Len(P) : SameLetter(d[i], P[i])

\* an exact rule matched a domain that differs from its pattern in case
C8_Witness ==
    /\ last.op = "matches"
    /\ input.rule.match_type = "exact"
    /\ input.domain # input.rule.pattern
    /\ last.out.val

\* C9: matches returns false and never raises for a regex rule whose pattern
\* fails to compile or to match and for a rule of unknown match type, and
\* get_matching_rule never raises.
C9_NeverRaises ==
    /\ last.op = "matches" =>
          /\ last.out.exc = "none"
          /\ (/\ input.rule.match_type = "regex"
              /\ LET r == re_match(Lower(input.rule.pattern), Lower(input.domain))
                 IN r.exc # "none" \/ ~r.val)
             => ~last.out.val
          /\ input.rule.match_type \notin {"exact", "suffix", "contains", "regex"}
             => ~last.out.val
    /\ last.op = "get_matching_rule" => last.out.exc = "none"

\* the rule get_matching_rule returned, None when it returned none
Returned(rules, out) ==
    [exc |-> out.exc, id |-> IF out.idx = 0 THEN None ELSE rules[out.idx].id]

\* C10: removing a disabled rule from a rule list changes neither what
\* get_matching_rule returns, nor the bypass list built, nor the PAC file
\* that apply_route_rules leaves, nor the route additions it asks for.
C10_DisabledInert ==
    \A i \in 1..(IF "rules" \in DOMAIN input THEN Len(input.rules) ELSE 0) :
        ~input.rules[i].enabled =>
            LET less == RemoveAt(input.rules, i) IN
            /\ last.op = "get_matching_rule" =>
                  Returned(less, get_matching_rule(less, input.domain))
                      = Returned(input.rules, last.out)
            /\ last.op = "get_bypass_list_from_rules" =>
                  get_bypass_list_from_rules(less) = last.out
            /\ last.op = "apply_route_rules" =>
                  LET o == apply_route_rules(less, "", input.dp.enabled,
                                             input.dp.server, input.dp.port,
                                             input.env, last.pre.pac, last.pre.routes)
                  IN
                  /\ o.pac = pac
                  /\ o.adds = last.out.adds
                  /\ o.routes = routes

\* apply_route_rules ran on a list with a disabled gateway rule and an
\* enabled rule, and left a PAC file
C10_Witness ==
    /\ last.op = "apply_route_rules"
    /\ \E i \in 1..Len(input.rules) :
          ~input.rules[i].enabled /\ input.rules[i].use_custom_gateway
    /\ \E i \in 1..Len(input.rules) : input.rules[i].enabled
    /\ pac # NoPac

-----------------------------------------------------------------------------
(* Properties of the generated PAC file, checked under SpecRules *)

\* apply_route_rules generated the PAC file and the write succeeded
PacWritten ==
    /\ last.op = "apply_route_rules"
    /\ \E k \in 1..Len(last.out.steps) : last.out.steps[k] = "generate_pac"
    /\ input.env.pacWriteOk

KnownMatchTypes == {"exact", "suffix", "contains", "regex"}

\* the rule asks for a proxy decision that can be written down
RequiresClause(r) ==
    /\ r.enabled
    /\ r.bypass_proxy \/ (r.use_custom_proxy /\ r.custom_proxy_server # "")

\* the rule gets a clause in the generated file
Contributes(r) == RequiresClause(r) /\ r.match_type \in KnownMatchTypes

IsClauseLine(l) == l.line = "if"

\* the clauses of a PAC file, without the comment lines
Clauses(file) == SelectSeq(file.conditions, IsClauseLine)

\* the action a rule's clause returns
RuleAction(r) ==
    IF r.bypass_proxy THEN <<"DIRECT">>
    ELSE <<"PROXY", r.custom_proxy_server, r.custom_proxy_port>>

PacHosts == {<<"a">>, <<"A">>, <<"b">>, <<"a", "a">>, <<"a", ".", "b">>, <<"c">>}

\* C11: the clauses of the generated PAC file stand in the order of their
\* rules, and for every host the script returns the action of the first
\* contributing rule whose clause test holds.
C11_ClauseOrder ==
    PacWritten =>
        LET contrib == SelectSeq(input.rules, Contributes)
            clauses == Clauses(pac)
        IN
        /\ \A k \in 1..Len(contrib) :
              /\ k <= Len(clauses)
              /\ clauses[k].pattern = contrib[k].pattern
              /\ clauses[k].ret = RuleAction(contrib[k])
        /\ \A host \in PacHosts : \A k \in 1..Len(clauses) :
              (/\ clause_holds(clauses[k], Lower(host))
               /\ \A m \in 1..(k - 1) : ~clause_holds(clauses[m], Lower(host)))
              => FindProxyForURL(pac, host) = RuleAction(contrib[k])

\* a PAC file was written whose first two clauses both hold for host "b" and
\* return different actions
C11_Witness ==
    /\ PacWritten
    /\ Len(Clauses(pac)) >= 2
    /\ Clauses(pac)[1].ret # Clauses(pac)[2].ret
    /\ clause_holds(Clauses(pac)[1], <<"b">>)
    /\ clause_holds(Clauses(pac)[2], <<"b">>)

\* C12: the generated PAC file holds exactly one clause for each enabled rule
\* with bypass_proxy or (use_custom_proxy and a non-empty custom server), none
\* for any other rule, and the clause returns DIRECT for bypass_proxy, else
\* the custom proxy.
C12_OneClausePerRule ==
    PacWritten =>
        LET required == SelectSeq(input.rules, RequiresClause)
            clauses == Clauses(pac)
        IN
        /\ Len(clauses) = Len(required)
        /\ \A k \in 1..Len(required) :
              /\ clauses[k].pattern = required[k].pattern
              /\ clauses[k].ret = RuleAction(required[k])

\* C13: the default return of the generated PAC file is the profile's default
\* proxy exactly when that proxy is enabled and its server is non-empty, and
\* DIRECT otherwise; it is what the script returns when no clause holds.
C13_DefaultReturn ==
    PacWritten =>
        LET expected ==
                IF input.dp.enabled /\ input.dp.server # ""
                THEN <<"PROXY", input.dp.server, input.dp.port>>
                ELSE <<"DIRECT">>
        IN
        /\ pac.default_return = expected
        /\ \A host \in PacHosts :
              (\A k \in 1..Len(Clauses(pac)) :
                   ~clause_holds(Clauses(pac)[k], Lower(host)))
              => FindProxyForURL(pac, host) = expected

\* a PAC file was written for a default proxy that is enabled and has no
\* server
C13_Witness ==
    /\ PacWritten
    /\ input.dp.enabled
    /\ input.dp.server = ""
    /\ pac.default_return = <<"DIRECT">>

\* C16: after apply_route_rules returns, the PAC file is absent whenever no
\* enabled rule has bypass_proxy or (use_custom_proxy with a non-empty custom
\* server), whatever file existed before.
C16_NoPacUnlessRequired ==
    (/\ last.op = "apply_route_rules"
     /\ \A i \in 1..Len(input.rules) : ~RequiresClause(input.rules[i]))
    => pac = NoPac

-----------------------------------------------------------------------------
(* Properties of the bypass list builder and of clear_static_routes,       *)
(* checked under SpecRules                                                 *)

\* C14: the list get_bypass_list_from_rules returns holds no entry twice.
C14_NoDuplicateEntries ==
    last.op = "get_bypass_list_from_rules" =>
        \A i, j \in 1..Len(last.out) : i # j => last.out[i] # last.out[j]

\* the number of entries a rule yields
EntryCount(r) ==
    IF r.enabled /\ r.bypass_proxy
    THEN IF r.match_type = "suffix" THEN 2 ELSE 1
    ELSE 0

\* the number of entries the rules before index i yield
RECURSIVE EntriesBefore(_, _)
EntriesBefore(rules, i) ==
    IF i <= 1 THEN 0
    ELSE EntriesBefore(rules, i - 1) + EntryCount(rules[i - 1])

\* the k-th entry of a rule
ExpectedEntry(r, k) ==
    CASE r.match_type = "suffix" ->
            IF k = 1 THEN <<"*", ".">> \o r.pattern ELSE r.pattern
      [] r.match_type = "contains" -> <<"*">> \o r.pattern \o <<"*">>
      [] OTHER -> r.pattern

\* C20: get_bypass_list_from_rules returns, in rule order, the entries of each
\* enabled bypass_proxy rule and nothing else: "*.P" then "P" for a suffix
\* rule, "*P*" for a contains rule, "P" for an exact rule and for any other
\* match type.
C20_BypassEntries ==
    last.op = "get_bypass_list_from_rules" =>
        /\ Len(last.out) = EntriesBefore(input.rules, Len(input.rules) + 1)
        /\ \A i \in 1..Len(input.rules) : \A k \in 1..EntryCount(input.rules[i]) :
              last.out[EntriesBefore(input.rules, i) + k]
                  = ExpectedEntry(input.rules[i], k)

\* the builder ran on a rule that yields nothing followed by a suffix rule
\* that yields two entries
C20_Witness ==
    /\ last.op = "get_bypass_list_from_rules"
    /\ Len(input.rules) = 2
    /\ EntryCount(input.rules[1]) = 0
    /\ input.rules[2].match_type = "suffix"
    /\ Len(last.out) = 2

\* C17: clear_static_routes returns success=true for every input, and for
\* each enabled rule with use_custom_gateway and a non-empty custom_gateway it
\* attempts the removal of the host route of every address the rule's name
\* resolves to now; a removal that does not fail leaves no route to the
\* address.
C17_ClearAttemptsAll ==
    last.op = "clear_static_routes" =>
        /\ last.out.success
        /\ \A i \in 1..Len(input.rules) :
              (/\ input.rules[i].enabled
               /\ input.rules[i].use_custom_gateway
               /\ input.rules[i].custom_gateway # "")
              => \A ip \in _resolve_domain(input.rules[i].pattern, input.env.dns) :
                    /\ \E k \in 1..Len(last.out.dels) :
                          /\ last.out.dels[k].rule = input.rules[i].id
                          /\ ip \in last.out.dels[k].ips
                    /\ ip \notin input.env.delFail
                       => \A r \in routes : r[1] # ip

\* clear_static_routes ran on an enabled gateway rule one of whose removals
\* failed and another removed a route
C17_Witness ==
    /\ last.op = "clear_static_routes"
    /\ \E i \in 1..Len(input.rules) :
          /\ input.rules[i].enabled
          /\ input.rules[i].use_custom_gateway
          /\ _resolve_domain(input.rules[i].pattern, input.env.dns)
                 \cap input.env.delFail # {}
    /\ routes # last.pre.routes
    /\ last.out.success

-----------------------------------------------------------------------------
(* The outcome of the route step, checked under Spec                       *)

\* the results of the network and proxy steps of the last apply_profile
NetworkStepOK ==
    apply_network_settings_sync(LastProfile.network_settings, adapter,
                                last.env.netFail).success

ProxyStepOK ==
    apply_proxy_settings(LastProfile.proxy_settings, registry,
                         last.env.proxyFail).success

\* C15: apply_route_rules returns success=true whatever its steps did, also
\* when every resolution fails, a route addition fails or the PAC write fails;
\* and apply_profile returns success whenever its network and proxy steps
\* succeed, whatever the route step did.
C15_RouteStepNotFatal ==
    last.op = "apply_profile" =>
        /\ last.route.ran => last.route.success
        /\ (NetworkStepOK /\ ProxyStepOK) => last.success

\* apply_profile succeeded although a step of apply_route_rules failed
C15_Witness ==
    /\ last.op = "apply_profile"
    /\ last.success
    /\ last.route.ran
    /\ last.route.warnings > 0
    /\ last.route.success

-----------------------------------------------------------------------------
(* The persisted document, checked under SpecRules                         *)

\* C18: a collection saved to profiles.json and loaded back has the same
\* profiles, each with the same route rules in the same order, every field of
\* every RouteRule equal to its value before the save.
C18_RulesRoundTrip ==
    last.op = "load" =>
        /\ Len(collection.profiles) = Len(input.coll.profiles)
        /\ \A i \in 1..Len(input.coll.profiles) :
              LET before == input.coll.profiles[i].route_rules
                  after == collection.profiles[i].route_rules
              IN
              /\ Len(after) = Len(before)
              /\ \A j \in 1..Len(before) :
                    /\ DOMAIN after[j] = DOMAIN before[j]
                    /\ \A f \in DOMAIN before[j] : after[j][f] = before[j][f]

\* a collection with two rules in a profile, one of them with no field at its
\* default, was saved and loaded
C18_Witness ==
    /\ last.op = "load"
    /\ \E i \in 1..Len(collection.profiles) :
          /\ Len(collection.profiles[i].route_rules) = 2
          /\ \E j \in 1..2 :
                LET r == collection.profiles[i].route_rules[j] IN
                /\ r.name # <<>>
                /\ ~r.enabled
                /\ r.custom_proxy_port # 8080
                /\ r.use_custom_dns
                /\ r.match_type # "exact"

-----------------------------------------------------------------------------
(* The default profile, checked under SpecProfiles                         *)

HasDefault(coll) ==
    \E i \in 1..Len(coll.profiles) : coll.profiles[i].is_default

IsDefaultIn(coll, profile_id) ==
    \E i \in 1..Len(coll.profiles) :
        coll.profiles[i].id = profile_id /\ coll.profiles[i].is_default

\* C19: delete_profile on a profile flagged is_default returns False and
\* leaves the collection, its active_profile_id and profiles.json as they
\* were; and once initialize_first_run has created the default profile, the
\* collection holds a default profile after every add, update, duplicate,
\* delete and apply.
C19_DefaultNeverDeleted ==
    [][/\ (last'.op = "delete_profile" /\ IsDefaultIn(collection, last'.pid))
          => (~last'.result /\ collection' = collection /\ disk' = disk)
       /\ collection'.settings.first_run_completed => HasDefault(collection')]_vars

\* delete_profile was called on the default profile, the active one, of a
\* collection that holds other profiles too, and returned False
C19_Witness ==
    /\ last.op = "delete_profile"
    /\ ~last.result
    /\ IsDefaultIn(collection, last.pid)
    /\ collection.active_profile_id = last.pid
    /\ Len(collection.profiles) >= 2

-----------------------------------------------------------------------------
(* The bypass list apply_profile hands to the ProxyService, checked under  *)
(* SpecRules                                                               *)

\* the entries of the stored list, in order
StaticEntries == existing_items(input.coll.profiles[1].proxy_settings.bypass_list)

\* the entries derived from the rules, in derivation order
DerivedEntries == get_bypass_list_from_rules(input.coll.profiles[1].route_rules)

\* the k-th derived entry is new: no static entry and no earlier derived
\* entry is string-equal to it
IsNewEntry(k) ==
    /\ \A i \in 1..Len(StaticEntries) : StaticEntries[i] # DerivedEntries[k]
    /\ \A m \in 1..(k - 1) : DerivedEntries[m] # DerivedEntries[k]

NewEntryIndexes == {k \in 1..Len(DerivedEntries) : IsNewEntry(k)}

\* the k-th of the new derived entries, in derivation order
NthNewEntry(n) ==
    DerivedEntries[CHOOSE k \in NewEntryIndexes :
                       Cardinality({m \in NewEntryIndexes : m <= k}) = n]

ExpectedItems ==
    StaticEntries \o [n \in 1..Cardinality(NewEntryIndexes) |-> NthNewEntry(n)]

\* the bypass list of the ProxySettings handed to apply_proxy_settings
HandedBypassList == collection.profiles[1].proxy_settings.bypass_list

\* C21: when a profile with the proxy enabled is applied, the bypass list
\* handed to the ProxyService is the stored entries in their order followed
\* by the derived entries equal to no entry already in the list, in
\* derivation order, each once; with nothing derived the stored list is
\* handed as it is.
C21_MergedBypassList ==
    (/\ last.op = "apply_profile"
     /\ input.coll.profiles[1].proxy_settings.enabled)
    => IF DerivedEntries = <<>>
       THEN HandedBypassList = input.coll.profiles[1].proxy_settings.bypass_list
       ELSE HandedBypassList = Join(ExpectedItems)

\* a profile was applied whose rules derive an entry twice, an entry the
\* stored list holds already, and a new entry
C21_Witness ==
    /\ last.op = "apply_profile"
    /\ input.coll.profiles[1].proxy_settings.enabled
    /\ \E k \in 1..Len(DerivedEntries) :
          \E i \in 1..Len(StaticEntries) : StaticEntries[i] = DerivedEntries[k]
    /\ \E k \in NewEntryIndexes : \E m \in (k + 1)..Len(DerivedEntries) :
          DerivedEntries[m] = DerivedEntries[k]
    /\ Len(existing_items(HandedBypassList)) > Len(StaticEntries)

-----------------------------------------------------------------------------
(* Properties of the gateway routes, checked under SpecRules               *)

\* the rules apply_route_rules adds routes for
OverridesGateway(r) == r.enabled /\ r.use_custom_gateway /\ r.custom_gateway # ""

\* the step apply_route_rules takes for the PAC file
PacStep ==
    IF \E i \in 1..Len(input.rules) :
           /\ input.rules[i].enabled
           /\ input.rules[i].bypass_proxy \/ input.rules[i].use_custom_proxy
    THEN "generate_pac"
    ELSE "remove_pac"

\* C22: in one apply_route_rules call every enabled gateway rule is
\* processed, also after a rule whose name did not resolve or whose route
\* addition failed: its addresses are resolved and each addition that does not
\* fail puts the route in the table; and the PAC step, generation when an
\* enabled proxy-override rule exists and removal otherwise, runs whatever
\* the gateway step did.
C22_SoftFailures ==
    last.op = "apply_route_rules" =>
        /\ \A i \in 1..Len(input.rules) :
              OverridesGateway(input.rules[i]) =>
                 /\ \E k \in 1..Len(last.out.adds) :
                       last.out.adds[k].rule = input.rules[i].id
                 /\ \A ip \in _resolve_domain(input.rules[i].pattern, input.env.dns)
                                  \ input.env.addFail :
                       <<ip, input.rules[i].custom_gateway>> \in routes
        /\ \E k \in 1..Len(last.out.steps) : last.out.steps[k] = PacStep

\* apply_route_rules ran on two gateway rules, the first one's name did not
\* resolve or its additions failed, the second one added a route
C22_Witness ==
    /\ last.op = "apply_route_rules"
    /\ Len(last.out.adds) = 2
    /\ last.out.adds[1].ips \subseteq input.env.addFail
    /\ last.out.adds[2].ips \ input.env.addFail # {}
    /\ routes # last.pre.routes
    /\ \E k \in 1..Len(last.out.steps) : last.out.steps[k] = "remove_pac"

\* the route additions asked for, rule by rule
ExpectedAdds ==
    LET G == SelectSeq(input.rules, OverridesGateway) IN
    [k \in 1..Len(G) |->
        [rule |-> G[k].id,
         ips |-> _resolve_domain(G[k].pattern, input.env.dns),
         gateway |-> G[k].custom_gateway]]

\* C23: apply_route_rules asks for the host route (address, gateway) of
\* exactly the rules that are enabled, have use_custom_gateway set and a
\* non-empty custom_gateway, for every address the rule's pattern resolves to
\* and with that rule's custom_gateway, one rule after the other in list
\* order.
C23_ExactlyGatewayRoutes ==
    last.op = "apply_route_rules" => last.out.adds = ExpectedAdds

\* apply_route_rules ran on a rule with use_custom_gateway and no gateway
\* address followed by a gateway rule that resolves to two addresses
C23_Witness ==
    /\ last.op = "apply_route_rules"
    /\ Len(input.rules) = 2
    /\ input.rules[1].use_custom_gateway /\ input.rules[1].custom_gateway = ""
    /\ Len(last.out.adds) = 1
    /\ Cardinality(last.out.adds[1].ips) = 2

\* C25: clear_static_routes attempts removals only for enabled rules, and
\* removes no route whose address is not resolved from an enabled gateway
\* rule.
C25_ClearOnlyEnabled ==
    last.op = "clear_static_routes" =>
        /\ \A k \in 1..Len(last.out.dels) :
              last.out.dels[k].ips # {} =>
                  \E i \in 1..Len(input.rules) :
                      /\ input.rules[i].id = last.out.dels[k].rule
                      /\ input.rules[i].enabled
        /\ \A r \in last.pre.routes \ routes :
              \E i \in 1..Len(input.rules) :
                  /\ OverridesGateway(input.rules[i])
                  /\ r[1] \in _resolve_domain(input.rules[i].pattern, input.env.dns)

\* C30: when the removals succeed, clear_static_routes after
\* apply_route_rules on the same rules and resolver state leaves no route in
\* the table that the apply put there.
C30_ClearUndoesApply ==
    (/\ last.op = "clear_static_routes"
     /\ last.after = "apply_route_rules"
     /\ input.env.delFail = {})
    => routes \cap (last.pre.routes \ input.rt) = {}

\* apply_route_rules added routes for two gateway rules and
\* clear_static_routes removed them
C30_Witness ==
    /\ last.op = "clear_static_routes"
    /\ last.after = "apply_route_rules"
    /\ input.env.delFail = {}
    /\ \E r1, r2 \in last.pre.routes \ input.rt : r1[2] # r2[2]
    /\ routes \cap (last.pre.routes \ input.rt) = {}

-----------------------------------------------------------------------------
(* The generated PAC script against the rule matcher, checked under        *)
(* SpecRules                                                               *)

\* the rule matches the host, as RouteRule.matches decides
MatcherHolds(r, host) ==
    LET m == matches(r, host) IN m.exc = "none" /\ m.val

\* the action of the first enabled proxy-override rule that matches the
\* host, the default when none does
MatcherAction(host) ==
    IF \E i \in 1..Len(input.rules) :
           RequiresClause(input.rules[i]) /\ MatcherHolds(input.rules[i], host)
    THEN RuleAction(input.rules[
             CHOOSE i \in 1..Len(input.rules) :
                 /\ RequiresClause(input.rules[i]) /\ MatcherHolds(input.rules[i], host)
                 /\ \A j \in 1..(i - 1) :
                       ~(RequiresClause(input.rules[j])
                         /\ MatcherHolds(input.rules[j], host))])
    ELSE pac.default_return

MatcherHosts == PacHosts \cup {<<"a", "b">>}

\* C26: for every host the generated PAC script returns the action of the
\* first enabled proxy-override rule that RouteRule.matches accepts for the
\* host, and the default when there is none.
C26_PacAgreesWithMatcher ==
    PacWritten =>
        \A host \in MatcherHosts : FindProxyForURL(pac, host) = MatcherAction(host)

-----------------------------------------------------------------------------
(* The editors and the steps of apply_profile, checked under Spec          *)

\* C27: a profile opened in the profile editor, with or without its route
\* rules dialog, and saved with no rule changed has the same route rules as
\* before, every field of every rule equal.
C27_EditKeepsRules ==
    [][(/\ last'.op = "update_profile"
        /\ last'.change[1] \in {"none", "open"})
       => get_profile(collection', last'.pid).route_rules
              = get_profile(collection, last'.pid).route_rules]_vars

InSteps(step, steps) == \E k \in 1..Len(steps) : steps[k] = step

\* the step sequences of apply_profile: a prefix that ends at the failing
\* network or proxy step, or all steps, the route step only with rules
StepSequences ==
    {<<>>, <<"network">>, <<"network", "proxy">>,
     <<"network", "proxy", "active", "save", "callbacks">>,
     <<"network", "proxy", "routes", "active", "save", "callbacks">>}

\* C29: apply_profile runs network, proxy, routes, active-profile update and
\* save, callbacks in this order and stops at the first of the network and
\* proxy steps that fails: then no later step has an effect (a failed network
\* step leaves the registry, a failed apply leaves the PAC file and the
\* routing table), active_profile_id keeps its value, nothing is saved and no
\* callback fires; a callback fires only with active_profile_id equal to the
\* applied profile's id.
C29_StepOrder ==
    [][last'.op = "apply_profile" =>
        /\ last'.steps \in StepSequences
        /\ ~last'.success =>
              /\ ~InSteps("callbacks", last'.steps)
              /\ ~InSteps("routes", last'.steps)
              /\ collection'.active_profile_id = collection.active_profile_id
              /\ disk' = disk
              /\ pac' = pac
              /\ routes' = routes
        /\ (~last'.success /\ ~InSteps("proxy", last'.steps)) => registry' = registry
        /\ last'.success <=> InSteps("callbacks", last'.steps)
        /\ InSteps("callbacks", last'.steps) =>
              /\ collection'.active_profile_id = last'.pid
              /\ disk' = save(collection')]_vars

\* apply_profile stopped at the proxy step for a profile that is not the
\* active one and has route rules
C29_Witness ==
    /\ last.op = "apply_profile"
    /\ ~last.success
    /\ last.steps = <<"network", "proxy">>
    /\ collection.active_profile_id # last.pid
    /\ collection.active_profile_id # None
    /\ LastProfile.route_rules # <<>>

-----------------------------------------------------------------------------
(* Identifiers and the active profile, checked under SpecProfiles *)

\* the ids of the rules of a list, in order
RuleIdsOf(rules) == [k \in 1..Len(rules) |-> rules[k].id]

RuleIdSet(rules) == {rules[k].id : k \in 1..Len(rules)}

\* the ids of all rules of a collection
CollectionRuleIds(coll) ==
    UNION {RuleIdSet(coll.profiles[i].route_rules) : i \in 1..Len(coll.profiles)}

\* no two rules of the collection, of one profile or of two, share an id
RuleIdsUnique(coll) ==
    \A i, j \in 1..Len(coll.profiles) :
        \A k \in 1..Len(coll.profiles[i].route_rules),
           l \in 1..Len(coll.profiles[j].route_rules) :
            (i # j \/ k # l)
                => coll.profiles[i].route_rules[k].id
                       # coll.profiles[j].route_rules[l].id

\* C24: after adding profiles and rules, editing rules in the rule editor,
\* editing a profile in place and duplicating profiles, no two rules of the
\* collection share an id; a rule edited in place keeps its id (the rules an
\* edit keeps have the ids they had, in the same order, and a rule added in
\* the editor has an id no rule had); every rule of a duplicate has an id no
\* rule of the collection had, those of the original included.
C24_RuleIdsStable ==
    [][/\ RuleIdsUnique(collection')
       /\ last'.op = "update_profile" =>
             LET old == RuleIdsOf(get_profile(collection, last'.pid).route_rules)
                 new == RuleIdsOf(get_profile(collection', last'.pid).route_rules)
             IN
             CASE last'.change[1] \in {"none", "open", "toggle"} -> new = old
               [] last'.change[1] = "delete" -> new = RemoveAt(old, last'.change[2])
               [] last'.change[1] = "add" ->
                     /\ Len(new) = Len(old) + 1
                     /\ SubSeq(new, 1, Len(old)) = old
                     /\ new[Len(new)] \notin CollectionRuleIds(collection)
       /\ last'.op = "duplicate_profile" =>
             /\ Len(get_profile(collection', last'.pid).route_rules)
                    = Len(get_profile(collection, last'.of).route_rules)
             /\ RuleIdSet(get_profile(collection', last'.pid).route_rules)
                    \cap CollectionRuleIds(collection) = {}
             /\ get_profile(collection', last'.of) = get_profile(collection, last'.of)
      ]_vars

\* a profile that got a second rule in the editor has been duplicated
C24_Witness ==
    /\ last.op = "duplicate_profile"
    /\ Len(get_profile(collection, last.pid).route_rules) = 2
    /\ Len(get_profile(collection, last.of).route_rules) = 2

\* the active id names no profile
ActiveDangling(coll) ==
    /\ coll.active_profile_id # None
    /\ \A i \in 1..Len(coll.profiles) :
           coll.profiles[i].id # coll.active_profile_id

C28_WitnessNone ==
    /\ last.op = "delete_profile"
    /\ last.result
    /\ last.active = last.pid
    /\ collection.profiles = <<>>
    /\ collection.active_profile_id = None

=============================================================================
